---- MODULE Spec2Model ----
(***************************************************************************)
(* A model of the 13F pipeline: the CUSIP->ticker mapper                   *)
(* (pipeline/02_build_cusip_mappings.py), the filing downloader            *)
(* (pipeline/00_download_13f_filings.py) and the filing analyzer           *)
(* (pipeline/05_analyze_net_adds.py with modules/data_enrichment_sec.py).  *)
(* Each stage is a single-threaded batch job; one specification per stage. *)
(***************************************************************************)
EXTENDS Integers, Sequences, FiniteSets, TLC

VARIABLES
    \* ---- CUSIP mapper ----
    cusip_ticker_map_file,  \* data/mappings/cusip_ticker_map.json (CUSIP -> ticker)
    manual_mappings_file,   \* data/mappings/manual_mappings.json  (CUSIP -> ticker)
    num_filing_cusips,      \* the filings mention the CUSIPs 1..num_filing_cusips
    m_pc,                   \* "idle" | "loop" | "done"
    cusip_ticker_cache,     \* self.cusip_ticker_cache
    unmapped_cusips,        \* the list built by map_cusips_via_api
    batch_num,              \* the loop variable of map_cusips_via_api (0-based offset)
    batch_status,           \* offset of a submitted batch -> the last HTTP outcome it got
    \* ---- files shared by the downloader and the analyzer ----
    filings,                \* sec-edgar-filings/<CIK>/13F-HR/<accession>/full-submission.txt
    filing_metadata_file,   \* data/13f_filings/filing_metadata.json (CIK -> filing period)
    \* ---- filing downloader ----
    clean_institutions_csv, \* the roster: the rows of config/clean_institutions.csv
    download_progress_file, \* data/13f_filings/download_progress_v2.json (a set of CIKs)
    d_pc,                   \* "idle" | "loop" | "done"
    d_force,                \* args.force of the current run
    cik_list,               \* the CIKs of target_firms.json, in order
    d_idx,                  \* position of the loop of download_quarter_filings in cik_list
    downloaded_ciks,        \* self.downloaded_ciks
    successful_downloads,   \* self.successful_downloads (the CIKs)
    failed_downloads,       \* self.failed_downloads (the CIKs)
    skipped_downloads,      \* self.skipped_downloads (the CIKs)
    filing_metadata,        \* self.filing_metadata
    d_start_progress,       \* the progress file as it was when the run started
    d_fetched,              \* the CIKs self.downloader.get was called for in this run
    d_quarters,             \* the quarters the operator runs the downloader for
    d_quarter,              \* year and quarter of download_quarter_filings in the current run
    d_before,               \* per CIK, the quarter of the last earlier run that recorded it
    \* ---- filing analyzer ----
    cusip_to_shares_file,   \* data/mappings/cusip_to_shares_complete.json: mtime, mappings
    analysis_progress_file, \* the stage of data/mappings/analysis_progress.json ("" if absent)
    enriched_cache_file,    \* data/mappings/enriched_holdings_cache.json
    total_holdings_file,    \* <root>/output/<Quarter>_<Year>/total_holdings_data.json
    quarterly_adds_file,    \* <root>/output/<Quarter>_<Year>/quarterly_adds_data.json
    a_pc,                   \* "idle" | "process" | "metrics" | "output" | "next" | "done" | "crashed"
    cwd,                    \* the working directory of the run: "root" | "pipeline"
    a_args,                 \* main's args: quarter, year, force_refresh
    a_phase,                \* which analyzer main is running: "prev" | "target"
    a_self,                 \* self.quarter and self.year of the running analyzer
    current_holdings,       \* self.current_holdings, in insertion order
    total_holdings_pct,     \* the first list calculate_metrics returns
    quarterly_adds_pct,     \* the second list calculate_metrics returns
    a_cache_used,           \* load_enriched_holdings returned True in this analysis
    a_nested,               \* calculate_quarterly_net_adds started a nested prior-quarter analysis
    institution_filing_periods, \* self.institution_filing_periods: name -> filing period
    \* ---- complete-chain mapper ----
    ticker_to_cik_file,     \* data/mappings/ticker_to_cik_map.json
    sec_shares_file,        \* data/sec_data/sec_shares_consolidated.json, its "data"
    today,                  \* the date of datetime.now()
    c_pc,                   \* "idle" | "built" | "saved"
    cusip_to_shares,        \* self.cusip_to_shares
    c_validation,           \* what is_valid_shares_data returned, per CUSIP it was called for
    cusip_to_shares_metadata, \* the "metadata" of cusip_to_shares_complete.json
    c_counters,             \* the four counters of build_complete_mapping
    \* --- institution lists written by the downloader ---
    institution_filter,     \* the downloader's --top / --range selection
    target_firms_file,      \* data/target_firms.json: the "firms" list, or not there
    cik_metadata_file,      \* data/cik_metadata.json: "cik_details", or not there
    \* --- dashboard ---
    max_data_age_days,      \* analysis.max_data_age_days of the loaded configuration
    holdings_data,          \* total_holdings_data.json of the quarter the user selects
    u_pc,                   \* "idle", "start", "loaded", "filtered"
    selected_quarter,       \* the (quarter, year) of the quarter selector
    stale_institutions,     \* load_holdings_data: the institutions it excluded
    df,                     \* the DataFrame load_holdings_data returned
    institution_breakdown,  \* the filtered counts it wrote to the metadata
    investor_metadata,      \* load_investor_metadata(): name -> consolidated type
    institution_totals,     \* calculate_institution_portfolios(df)
    filters,                \* the sidebar filters of the last rerun
    filtered_df,            \* filter_dataframe(df, filters, ...)
    \* --- get_latest_completed_quarter, called day after day ---
    latest_quarter,         \* what the last call returned
    earlier_quarter,        \* what the call before it returned
    called_today,           \* the function has been called on the day of today
    \* --- configuration of the stages that talk to SEC ---
    sec_user_email,         \* the environment variable SEC_USER_EMAIL
    analysis_config_file,   \* config/analysis_config.json
    stage_pc,               \* per stage: "idle", "failed", "configured", "requested", "done"
    stage_email,            \* per stage: the contact email it will put in its requests
    http_requests,          \* the requests sent to SEC: (stage, email)
    \* --- shares-outstanding extractor ---
    companyfacts_zip,       \* data/sec_data/companyfacts.zip: its members, in namelist order
    x_pc,                   \* "idle", "extract", "cancelled", "failed", "done"
    needed_ciks,            \* what get_needed_ciks returned
    shares_data,            \* what extract_selective_companyfacts returned
    \* --- ticker reference downloader ---
    company_tickers_file,   \* data/mappings/company_tickers.json
    t_pc,                   \* "idle", "download", "process", "failed", "unprocessed", "done"
    t_force,                \* args.force of the run
    attempt,                \* the loop variable of download_company_tickers
    t_start_files           \* both files of the stage as they were when the run started

mapperVars == <<cusip_ticker_map_file, manual_mappings_file, num_filing_cusips, m_pc,
                cusip_ticker_cache, unmapped_cusips, batch_num, batch_status>>

fsVars == <<filings, filing_metadata_file>>

downloaderVars == <<clean_institutions_csv, download_progress_file, d_pc, d_force, cik_list,
                    d_idx, downloaded_ciks, successful_downloads, failed_downloads,
                    skipped_downloads, filing_metadata, d_start_progress, d_fetched,
                    d_quarters, d_quarter, d_before>>

analyzerVars == <<cusip_to_shares_file, analysis_progress_file, enriched_cache_file,
                  total_holdings_file, quarterly_adds_file, a_pc, cwd, a_args, a_phase, a_self,
                  current_holdings, total_holdings_pct, quarterly_adds_pct, a_cache_used,
                  a_nested, institution_filing_periods>>

completeVars == <<ticker_to_cik_file, sec_shares_file, today, c_pc, cusip_to_shares,
                  c_validation, cusip_to_shares_metadata, c_counters>>

targetVars == <<institution_filter, target_firms_file, cik_metadata_file>>

dashboardVars == <<max_data_age_days, holdings_data, u_pc, selected_quarter,
                   stale_institutions, df, institution_breakdown, investor_metadata,
                   institution_totals, filters, filtered_df>>

\* The variables of the stages modelled after the downloader, mapper and analyzer.
pathVars == <<latest_quarter, earlier_quarter, called_today>>

configVars == <<sec_user_email, analysis_config_file, stage_pc, stage_email, http_requests>>

extractorVars == <<companyfacts_zip, x_pc, needed_ciks, shares_data>>

\* The variables of the reference-data stages.
tickerVars == <<company_tickers_file, t_pc, t_force, attempt, t_start_files>>

stageVars == <<extractorVars, tickerVars>>

laterVars == <<targetVars, dashboardVars, pathVars, configVars, stageVars>>
restVars == <<completeVars, laterVars>>

vars == <<mapperVars, fsVars, downloaderVars, analyzerVars, restVars>>

(***************************************************************************)
(* Generic helpers                                                         *)
(***************************************************************************)
Min(a, b) == IF a < b THEN a ELSE b

\* All functions from a subset of S to T: a JSON object with keys in S.
PartialFns(S, T) == UNION {[D -> T] : D \in SUBSET S}

\* The ascending sequence of the elements of a finite set of integers.
RECURSIVE SortedSeq(_)
SortedSeq(S) ==
    IF S = {} THEN <<>>
    ELSE LET m == CHOOSE x \in S : \A y \in S : x <= y
         IN <<m>> \o SortedSeq(S \ {m})

(***************************************************************************)
(* The downloaded filings                                                  *)
(***************************************************************************)
CIKs == {"c1", "c2"}

\* An institution name is the sequence of its words; words that differ in case
\* are different words.
Vanguard == <<"Vanguard", "Group">>
Citadel == <<"Citadel", "Advisors">>
StateStreet == <<"State", "Street", "Corp">>

\* The accession directories a CIK can have, in the order of their names.
Slots == {1, 2}

NoFiling == [present |-> FALSE]
\* A submission header without a CONFORMED PERIOD OF REPORT line.
NoReport == [year |-> 0, month |-> 0]
\* The None that extract_filing_period returns.
NoPeriod == [year |-> 0, quarter |-> 0, month |-> 0]

\* One row of an information table: value is the text of <value> (thousands).
Line(cusip, shares, value) == [cusip |-> cusip, shares |-> shares, value |-> value]

\* A full-submission.txt: the submission type of its header (amend: 13F-HR/A),
\* the year and month of CONFORMED PERIOD OF REPORT, its information table.
Filing(amend, report, lines) ==
    [present |-> TRUE, amend |-> amend, report |-> report, lines |-> lines]

NoFilings == [s \in Slots |-> NoFiling]

\* extract_filing_period: the year and month of the header, the quarter from the month.
ExtractFilingPeriod(f) ==
    IF f.report = NoReport THEN NoPeriod
    ELSE [year |-> f.report.year,
          quarter |-> IF f.report.month <= 3 THEN 1
                      ELSE IF f.report.month <= 6 THEN 2
                      ELSE IF f.report.month <= 9 THEN 3
                      ELSE 4,
          month |-> f.report.month]

\* filing_path.exists() and any(filing_path.iterdir())
HasFilingDir(fs, cik) == \E s \in Slots : fs[cik][s].present

\* max(filing_path.iterdir(), key=lambda x: x.name)
LatestFiling(fs, cik) ==
    fs[cik][CHOOSE s \in Slots : fs[cik][s].present /\ \A t \in Slots : fs[cik][t].present => t <= s]

(***************************************************************************)
(* CUSIP -> ticker mapper                                                  *)
(***************************************************************************)
MaxCusips == 12
batch_size == 10

Tickers == {"T1", "T2"}
\* The CUSIPs that the cache file and the manual file of the model may mention.
KeyCusips == {1, 2}

\* One entry of an OpenFIGI result list: it carries a ticker or it does not.
NoTicker == "-"
\* What the service answers for one CUSIP in a 200 response: a list of entries.
ApiAnswers == {
    [c \in 1..(MaxCusips + 1) |-> <<>>],
    [c \in 1..(MaxCusips + 1) |-> <<"T1">>],
    [c \in 1..(MaxCusips + 1) |-> IF c % 2 = 1 THEN <<NoTicker, "T2", "T1">> ELSE <<NoTicker>>] }

HttpOutcomes == {"200", "429", "413", "500", "exception"}

\* CUSIPMapper.__init__: the cache is loaded, then a manual mapping is added
\* for every CUSIP the cache does not have.
MergeManualOverrides(cache, manual) == manual @@ cache
MergeManual(cache, manual) == cache @@ manual

\* map_cusips_via_api: the CUSIPs of the filings that the cache does not have.
UnmappedAll(all, cache) == SortedSeq(all)
Unmapped(all, cache) == SortedSeq({c \in all : c \notin DOMAIN cache})

\* The ticker of the first result entry that has one ("" when none has).
RECURSIVE FirstTicker(_)
FirstTicker(item) ==
    IF item = <<>> THEN ""
    ELSE IF Head(item) # NoTicker THEN Head(item)
    ELSE FirstTicker(Tail(item))

\* The batch that starts at offset n: unmapped_cusips[n : n + batch_size].
BatchAt(list, n) == SubSeq(list, n + 1, Min(n + batch_size, Len(list)))

\* The 200 branch: every CUSIP of the batch whose answer has a ticker is cached.
ApplyAnswer(cache, batch, answer) ==
    LET got == {batch[i] : i \in {j \in 1..Len(batch) : FirstTicker(answer[batch[j]]) # ""}}
    IN [c \in got |-> FirstTicker(answer[c])] @@ cache

\* range(0, len, batch_size): the offset after n, whatever the body did to batch_num.
NextOffset(n, status) == n + batch_size

MInit ==
    /\ cusip_ticker_map_file \in PartialFns(KeyCusips, Tickers)
    /\ manual_mappings_file \in PartialFns(KeyCusips, Tickers)
    /\ num_filing_cusips \in 0..MaxCusips
    /\ m_pc = "idle"
    /\ cusip_ticker_cache = <<>>
    /\ unmapped_cusips = <<>>
    /\ batch_num = 0
    /\ batch_status = <<>>

\* The operator edits manual_mappings.json between two runs.
EditManualMappings ==
    /\ m_pc \in {"idle", "done"}
    /\ manual_mappings_file' \in PartialFns(KeyCusips, Tickers)
    /\ manual_mappings_file' # manual_mappings_file
    /\ m_pc' = "idle"
    /\ UNCHANGED <<cusip_ticker_map_file, num_filing_cusips, cusip_ticker_cache,
                   unmapped_cusips, batch_num, batch_status, fsVars, downloaderVars, analyzerVars, restVars>>

\* main: CUSIPMapper(), collect_all_cusips() and the head of map_cusips_via_api.
MapperStart ==
    /\ m_pc \in {"idle", "done"}
    /\ LET cache == MergeManual(cusip_ticker_map_file, manual_mappings_file)
           todo  == Unmapped(1..num_filing_cusips, cache)
       IN /\ cusip_ticker_cache' = cache
          /\ unmapped_cusips' = todo
          /\ m_pc' = IF todo = <<>> THEN "done" ELSE "loop"
    /\ batch_num' = 0
    /\ batch_status' = <<>>
    /\ UNCHANGED <<cusip_ticker_map_file, manual_mappings_file, num_filing_cusips,
                   fsVars, downloaderVars, analyzerVars, restVars>>

\* One iteration of the batch loop of map_cusips_via_api.
MapperBatch ==
    /\ m_pc = "loop"
    /\ \E status \in HttpOutcomes, answer \in ApiAnswers :
         LET batch == BatchAt(unmapped_cusips, batch_num)
             next  == NextOffset(batch_num, status)
         IN /\ IF status = "200"
               THEN /\ cusip_ticker_cache' = ApplyAnswer(cusip_ticker_cache, batch, answer)
                    /\ cusip_ticker_map_file' = cusip_ticker_cache'
               ELSE UNCHANGED <<cusip_ticker_cache, cusip_ticker_map_file>>
            /\ batch_status' = (batch_num :> status) @@ batch_status
            /\ batch_num' = next
            /\ m_pc' = IF next < Len(unmapped_cusips) THEN "loop" ELSE "done"
    /\ UNCHANGED <<manual_mappings_file, num_filing_cusips, unmapped_cusips,
                   fsVars, downloaderVars, analyzerVars, restVars>>

\* The process is interrupted between two batches: only the files survive.
MapperInterrupt ==
    /\ m_pc = "loop"
    /\ m_pc' = "idle"
    /\ UNCHANGED <<cusip_ticker_map_file, manual_mappings_file, num_filing_cusips,
                   cusip_ticker_cache, unmapped_cusips, batch_num, batch_status,
                   fsVars, downloaderVars, analyzerVars, restVars>>

MNext == EditManualMappings \/ MapperStart \/ MapperBatch \/ MapperInterrupt

\* The mapper at rest, for the specifications of the other stages.
MIdle ==
    /\ cusip_ticker_map_file = <<>>
    /\ manual_mappings_file = <<>>
    /\ num_filing_cusips = 0
    /\ m_pc = "idle"
    /\ cusip_ticker_cache = <<>>
    /\ unmapped_cusips = <<>>
    /\ batch_num = 0
    /\ batch_status = <<>>

\* C8: a batch answered with HTTP 429 is submitted again: the loop is never past
\* a batch whose last answer was 429, so no rate-limited batch is left behind.
C8_RateLimitedBatchRetried ==
    \A b \in DOMAIN batch_status : b # batch_num => batch_status[b] # "429"

\* C9 (as stated): a CUSIP that is in the manual file and in the cache file is
\* carried in the working mapping with the manual ticker.
C9_ManualTickerWins ==
    m_pc \in {"loop", "done"} =>
        \A c \in DOMAIN manual_mappings_file \cap DOMAIN cusip_ticker_map_file :
            cusip_ticker_cache[c] = manual_mappings_file[c]

\* C9 (amended): during a run the working mapping carries, for a CUSIP of the
\* manual file, the cached ticker when the cache file has the CUSIP and the
\* manual ticker only when it has not; such a CUSIP is never looked up remotely.
C9_CachedTickerWins ==
    m_pc \in {"loop", "done"} =>
        \A c \in DOMAIN manual_mappings_file :
            /\ c \in DOMAIN cusip_ticker_cache
            /\ cusip_ticker_cache[c] = IF c \in DOMAIN cusip_ticker_map_file
                                       THEN cusip_ticker_map_file[c]
                                       ELSE manual_mappings_file[c]
            /\ \A i \in 1..Len(unmapped_cusips) : unmapped_cusips[i] # c

C9_Witness ==
    /\ m_pc = "done"
    /\ \E b \in DOMAIN batch_status : batch_status[b] = "200"
    /\ \E c \in DOMAIN manual_mappings_file \cap DOMAIN cusip_ticker_map_file :
          manual_mappings_file[c] # cusip_ticker_map_file[c]

\* C10: an entry of the persisted CUSIP->ticker cache is never removed and never
\* changed by any step of any run; a step only adds entries for absent CUSIPs.
C10_PersistedCacheAdditive ==
    [][\A c \in DOMAIN cusip_ticker_map_file :
          /\ c \in DOMAIN cusip_ticker_map_file'
          /\ cusip_ticker_map_file'[c] = cusip_ticker_map_file[c]]_vars

\* A second run, after a rate-limited batch, has added entries to a cache file
\* that already had some.
C10_Witness ==
    /\ m_pc = "done"
    /\ \E b \in DOMAIN batch_status : batch_status[b] = "429"
    /\ \E b \in DOMAIN batch_status : batch_status[b] = "200"
    /\ KeyCusips \subseteq DOMAIN cusip_ticker_map_file
    /\ \E c \in DOMAIN cusip_ticker_map_file : c \notin KeyCusips

(***************************************************************************)
(* Filing downloader                                                       *)
(***************************************************************************)
\* A row of the roster: the cells Institution, CIK and Type; an empty cell is
\* <<>> for the name and "" for the CIK.
Row(name, cik, type) == [Institution |-> name, CIK |-> cik, Type |-> type]

\* The row of a CIK in the rosters of the model.
RowOf(cik) == IF cik = "c1" THEN Row(Vanguard, "c1", "Asset Manager")
              ELSE Row(Citadel, "c2", "Hedge Fund")

\* The rosters of the model: every list of rows of distinct CIKs (the CIK is the
\* identity key of an institution).
Rosters == {[i \in DOMAIN r |-> RowOf(r[i])] :
              r \in {q \in UNION {[1..n -> CIKs] : n \in 0..Cardinality(CIKs)} :
                        \A i, j \in DOMAIN q : i # j => q[i] # q[j]}}

\* institution_filter: {} for all, {'top': n}, or {'range': (start, end)}.
NoInstitutionFilter == [top |-> 0, range |-> <<>>]
InstitutionFilters == {NoInstitutionFilter, [top |-> 1, range |-> <<>>],
                       [top |-> 0, range |-> <<2, 2>>]}

\* all_institutions: the rows that have an Institution and a CIK, in order.
AllInstitutions(csv) ==
    LET rows == SelectSeq(csv, LAMBDA row : row.Institution # <<>> /\ row.CIK # "")
    IN  [i \in DOMAIN rows |->
            [cik |-> rows[i].CIK, name |-> rows[i].Institution, type |-> rows[i].Type]]

\* filtered_institutions: all_institutions[:n], all_institutions[start-1:end],
\* or all of them.
FilteredInstitutions(all, filter) ==
    IF filter.top # 0 THEN SubSeq(all, 1, Min(filter.top, Len(all)))
    ELSE IF filter.range # <<>>
         THEN SubSeq(all, filter.range[1], Min(filter.range[2], Len(all)))
         ELSE all

\* The firms list of target_firms.json.
Firms(filtered) == [i \in DOMAIN filtered |-> [cik |-> filtered[i].cik, name |-> filtered[i].name]]

\* metadata['cik_details']: one entry per CIK, the last row of a CIK winning.
CikDetails(filtered) ==
    [c \in {filtered[i].cik : i \in DOMAIN filtered} |->
        LET i == CHOOSE i \in DOMAIN filtered :
                     /\ filtered[i].cik = c
                     /\ \A j \in DOMAIN filtered : filtered[j].cik = c => j <= i
        IN  [name |-> filtered[i].name, type |-> filtered[i].type]]

\* cik_metadata.json keeping the entries it had and adding the new ones.
UpdateCikMetadata(previous, details) ==
    [exists |-> TRUE,
     cik_details |-> IF previous.exists THEN details @@ previous.cik_details ELSE details]

\* open(metadata_file, 'w') and json.dump(metadata): the file holds the new
\* entries and nothing of what it held.
WriteCikMetadata(previous, details) == [exists |-> TRUE, cik_details |-> details]

\* get_13f_filers_ciks: the CIKs of the firms of target_firms.json.
TargetCiks(file) == IF file.exists THEN [i \in DOMAIN file.firms |-> file.firms[i].cik] ELSE <<>>

\* What one call of self.downloader.get("13F-HR", cik, limit=2, include_amends=False)
\* can leave in the CIK's directory: nothing new, or the one or two most recent filings.
FetchedFilings == {
    [s \in Slots |-> IF s = 2 THEN Filing(FALSE, [year |-> 2025, month |-> 3], <<Line(1, 50, 7)>>)
                     ELSE Filing(FALSE, [year |-> 2024, month |-> 12], <<Line(1, 40, 5)>>)] }

\* The outcomes of the call: it raises, it returns having found no filing, or it
\* returns having written filings.
FetchOutcomes == {"exception", "none", "filings"}

WriteFetched(dir, new) == [s \in Slots |-> IF new[s].present THEN new[s] ELSE dir[s]]

\* A year and a quarter: the arguments of a run, self.quarter and self.year, and
\* the keys of the output directories.
QY(q, y) == [quarter |-> q, year |-> y]

NoQuarter == [quarter |-> 0, year |-> 0]

\* No run has recorded any CIK yet.
NoneRecorded == [cik \in CIKs |-> NoQuarter]

\* The CIKs that runs up to and including the one just ended recorded as
\* successful, each with the quarter of the last run that recorded it.
RecordedBefore(before, successes, quarter) ==
    [cik \in CIKs |-> IF \E i \in DOMAIN successes : successes[i] = cik THEN quarter
                      ELSE before[cik]]

\* main: --force empties the progress set that __init__ loaded.
ProgressKeptOnForce(force, progress) == progress
ProgressAtStart(force, progress) == IF force THEN {} ELSE progress

\* A skip keyed by CIK and quarter: a CIK of the progress set is skipped only in
\* a run for the quarter of the run that recorded it.
IsSkippedSameQuarter(cik, done) == cik \in done /\ d_before[cik] = d_quarter

\* download_quarter_filings: a CIK of the progress set is skipped.
IsSkipped(cik, done) == cik \in done

\* The downloader at rest.
DIdle ==
    /\ clean_institutions_csv = <<>>
    /\ download_progress_file = {}
    /\ d_pc = "idle"
    /\ d_force = FALSE
    /\ cik_list = <<>>
    /\ d_idx = 1
    /\ downloaded_ciks = {}
    /\ successful_downloads = <<>>
    /\ failed_downloads = <<>>
    /\ skipped_downloads = <<>>
    /\ filing_metadata = <<>>
    /\ d_start_progress = {}
    /\ d_fetched = {}
    /\ d_quarters = {QY(1, 2025)}
    /\ d_quarter = NoQuarter
    /\ d_before = NoneRecorded

\* No filing has been downloaded.
FsEmpty ==
    /\ filings = [c \in CIKs |-> NoFilings]
    /\ filing_metadata_file = <<>>

\* Before a run of the downloader: any roster, any progress file left by earlier
\* runs, and for each CIK either no filing or one filing of an earlier quarter.
DInit ==
    /\ filings \in [CIKs -> {NoFilings,
                             [s \in Slots |-> IF s = 1
                                 THEN Filing(FALSE, [year |-> 2024, month |-> 12], <<Line(1, 40, 5)>>)
                                 ELSE NoFiling]}]
    /\ filing_metadata_file = <<>>
    /\ clean_institutions_csv \in Rosters
    /\ download_progress_file \in SUBSET CIKs
    /\ d_pc = "idle"
    /\ d_force = FALSE
    /\ cik_list = <<>>
    /\ d_idx = 1
    /\ downloaded_ciks = {}
    /\ successful_downloads = <<>>
    /\ failed_downloads = <<>>
    /\ skipped_downloads = <<>>
    /\ filing_metadata = <<>>
    /\ d_start_progress = {}
    /\ d_fetched = {}
    /\ d_quarters = {QY(1, 2025)}
    /\ d_quarter = NoQuarter
    /\ d_before = NoneRecorded

\* main up to the loop: ModernSEC13FDownloader() loads the progress file and
\* regenerates the target list from the roster; --force clears and saves the
\* progress set; download_quarter_filings resets its result lists.
DownloaderStart ==
    /\ d_pc \in {"idle", "done"}
    /\ \E force \in BOOLEAN :
         /\ d_force' = force
         /\ downloaded_ciks' = ProgressAtStart(force, download_progress_file)
         /\ download_progress_file' = IF force THEN downloaded_ciks' ELSE download_progress_file
    /\ d_start_progress' = download_progress_file
    /\ \E filter \in InstitutionFilters :
         LET filtered == FilteredInstitutions(AllInstitutions(clean_institutions_csv), filter)
         IN  /\ institution_filter' = filter
             /\ target_firms_file' = [exists |-> TRUE, firms |-> Firms(filtered)]
             /\ cik_metadata_file' = WriteCikMetadata(cik_metadata_file, CikDetails(filtered))
    /\ cik_list' = TargetCiks(target_firms_file')
    /\ d_idx' = 1
    /\ successful_downloads' = <<>>
    /\ failed_downloads' = <<>>
    /\ skipped_downloads' = <<>>
    /\ filing_metadata' = <<>>
    /\ d_fetched' = {}
    /\ \E q \in d_quarters : d_quarter' = q
    /\ d_before' = RecordedBefore(d_before, successful_downloads, d_quarter)
    /\ d_pc' = "loop"
    /\ UNCHANGED <<clean_institutions_csv, d_quarters, fsVars, mapperVars, analyzerVars,
                   completeVars, dashboardVars, pathVars, configVars, stageVars>>

\* One iteration of the loop over cik_list in download_quarter_filings.
DownloaderStep ==
    /\ d_pc = "loop"
    /\ d_idx <= Len(cik_list)
    /\ LET cik == cik_list[d_idx]
       IN IF IsSkipped(cik, downloaded_ciks)
          THEN /\ skipped_downloads' = Append(skipped_downloads, cik)
               /\ UNCHANGED <<filings, download_progress_file, downloaded_ciks,
                              successful_downloads, failed_downloads, filing_metadata,
                              d_fetched>>
          ELSE \E outcome \in FetchOutcomes, new \in FetchedFilings :
                 /\ d_fetched' = d_fetched \cup {cik}
                 /\ filings' = IF outcome = "filings"
                               THEN [filings EXCEPT ![cik] = WriteFetched(filings[cik], new)]
                               ELSE filings
                 /\ IF outcome = "exception"
                    THEN /\ failed_downloads' = Append(failed_downloads, cik)
                         /\ UNCHANGED <<download_progress_file, downloaded_ciks,
                                        successful_downloads, filing_metadata>>
                    ELSE /\ successful_downloads' = Append(successful_downloads, cik)
                         /\ downloaded_ciks' = downloaded_ciks \cup {cik}
                         /\ download_progress_file' = downloaded_ciks'
                         /\ filing_metadata' =
                              (cik :> (IF HasFilingDir(filings', cik)
                                       THEN ExtractFilingPeriod(LatestFiling(filings', cik))
                                       ELSE NoPeriod)) @@ filing_metadata
                         /\ UNCHANGED failed_downloads
                 /\ UNCHANGED skipped_downloads
    /\ d_idx' = d_idx + 1
    /\ UNCHANGED <<clean_institutions_csv, d_pc, d_force, cik_list, d_start_progress,
                   d_quarters, d_quarter, d_before,
                   filing_metadata_file, mapperVars, analyzerVars, restVars>>

\* After the loop: filing_metadata.json is written from this run's dictionary.
DownloaderFinish ==
    /\ d_pc = "loop"
    /\ d_idx > Len(cik_list)
    /\ filing_metadata_file' = filing_metadata
    /\ d_pc' = "done"
    /\ UNCHANGED <<filings, clean_institutions_csv, download_progress_file, d_force, cik_list,
                   d_idx, downloaded_ciks, successful_downloads, failed_downloads,
                   skipped_downloads, filing_metadata, d_start_progress, d_fetched,
                   d_quarters, d_quarter, d_before, mapperVars,
                   analyzerVars, restVars>>

\* KeyboardInterrupt inside the loop: main catches it and the process ends.
DownloaderInterrupt ==
    /\ d_pc = "loop"
    /\ d_idx <= Len(cik_list)
    /\ d_pc' = "done"
    /\ UNCHANGED <<fsVars, clean_institutions_csv, download_progress_file, d_force, cik_list,
                   d_idx, downloaded_ciks, successful_downloads, failed_downloads,
                   skipped_downloads, filing_metadata, d_start_progress, d_fetched,
                   d_quarters, d_quarter, d_before, mapperVars,
                   analyzerVars, restVars>>

DNext == DownloaderStart \/ DownloaderStep \/ DownloaderFinish \/ DownloaderInterrupt

\* The CIKs of a list.
Range(seq) == {seq[i] : i \in DOMAIN seq}

\* The CIKs the loop has already handled in this run.
Handled == {cik_list[i] : i \in 1..(d_idx - 1)}

\* C5: a CIK of the progress file as it was at the start of a run is not fetched
\* in that run and, once the loop has handled it, is in the skipped list; with
\* --force the progress file was emptied before the loop (it holds only CIKs
\* fetched in this run) and no CIK is skipped.
C5_ProgressSkipsUnlessForced ==
    d_pc \in {"loop", "done"} =>
        IF d_force
        THEN /\ skipped_downloads = <<>>
             /\ download_progress_file \subseteq d_fetched
             /\ Handled \subseteq d_fetched
        ELSE \A cik \in d_start_progress :
               /\ cik \notin d_fetched
               /\ cik \in Handled => cik \in Range(skipped_downloads)

\* A forced run has fetched a CIK that the progress file had at its start, and
\* a run without the flag has skipped one.
C5_Witness ==
    /\ d_pc = "done"
    /\ d_idx > Len(cik_list)
    /\ d_start_progress # {}
    /\ d_start_progress \subseteq Range(cik_list)
    /\ IF d_force THEN d_start_progress \subseteq d_fetched
                  ELSE d_start_progress = Range(skipped_downloads)
    /\ d_force => filing_metadata_file # <<>>

\* C6: a CIK is in the success list, and so in the progress set, only if a filing
\* directory exists for it after the fetch; a fetch that found no filing is a failure.
C6_SuccessOnlyWithFiling ==
    \A cik \in Range(successful_downloads) : HasFilingDir(filings, cik)

(***************************************************************************)
(* Calendar dates                                                          *)
(***************************************************************************)
\* A date written as YYYY-MM-DD.
Date(y, m, d) == [kind |-> "iso", year |-> y, month |-> m, day |-> d]

\* The same date written in a layout datetime.fromisoformat does not accept
\* (for instance 2023-6-30).
OtherLayout(y, m, d) == [kind |-> "other", year |-> y, month |-> m, day |-> d]

\* None, or the empty string.
NoDate == [kind |-> "none", year |-> 0, month |-> 0, day |-> 0]

IsLeapYear(y) == (y % 4 = 0 /\ y % 100 # 0) \/ y % 400 = 0

DaysInMonth(y, m) ==
    IF m = 2 THEN (IF IsLeapYear(y) THEN 29 ELSE 28)
    ELSE IF m \in {4, 6, 9, 11} THEN 30
    ELSE 31

RECURSIVE DaysBeforeMonth(_, _)
DaysBeforeMonth(y, m) ==
    IF m <= 1 THEN 0 ELSE DaysBeforeMonth(y, m - 1) + DaysInMonth(y, m - 1)

RECURSIVE DaysBeforeYear(_)
DaysBeforeYear(y) ==
    IF y <= 2000 THEN 0
    ELSE DaysBeforeYear(y - 1) + (IF IsLeapYear(y - 1) THEN 366 ELSE 365)

\* The number of the day, counted from 2000-01-01: (a - b).days is
\* DayNumber(a) - DayNumber(b).
DayNumber(date) == DaysBeforeYear(date.year) + DaysBeforeMonth(date.year, date.month) + date.day

\* a < b for two YYYY-MM-DD strings (and for two datetimes).
DateLess(a, b) ==
    \/ a.year < b.year
    \/ a.year = b.year /\ a.month < b.month
    \/ a.year = b.year /\ a.month = b.month /\ a.day < b.day

(***************************************************************************)
(* The later stages at rest                                                *)
(***************************************************************************)
NoCounters == [successful_mappings |-> 0, missing_ticker_to_cik |-> 0,
               missing_cik_to_shares |-> 0, invalid_shares_data |-> 0]

NoMetadata == [total_cusips |-> 0, mapped_cusips |-> 0,
               coverage_percentage |-> [num |-> 0, den |-> 1]]

\* The complete-chain mapper at rest.
CIdle ==
    /\ ticker_to_cik_file = <<>>
    /\ sec_shares_file = <<>>
    /\ today = Date(2025, 7, 1)
    /\ c_pc = "idle"
    /\ cusip_to_shares = <<>>
    /\ c_validation = <<>>
    /\ cusip_to_shares_metadata = NoMetadata
    /\ c_counters = NoCounters

\* A file that is not there.
NoFile == [exists |-> FALSE]

\* No institution list has been written.
TIdle ==
    /\ institution_filter = NoInstitutionFilter
    /\ target_firms_file = NoFile
    /\ cik_metadata_file = NoFile

NoFilters == [selected_investors |-> <<>>, investor_types |-> {}, search |-> "",
              holders_range |-> <<0, 0>>]

\* The dashboard is not running.
UIdle ==
    /\ max_data_age_days = 365
    /\ holdings_data = NoFile
    /\ u_pc = "idle"
    /\ selected_quarter = [quarter |-> 0, year |-> 0]
    /\ stale_institutions = {}
    /\ df = <<>>
    /\ institution_breakdown = <<>>
    /\ investor_metadata = <<>>
    /\ institution_totals = <<>>
    /\ filters = NoFilters
    /\ filtered_df = <<>>

\* get_latest_completed_quarter has not been called.
PIdle ==
    /\ latest_quarter = NoQuarter
    /\ earlier_quarter = NoQuarter
    /\ called_today = FALSE

\* The stages that load the configuration and send requests to SEC: the filing
\* downloader, the ticker reference downloader, the shares-outstanding extractor.
Stages == {"00", "01", "03"}

\* No stage has been started.
GIdle ==
    /\ sec_user_email = [set |-> FALSE, value |-> ""]
    /\ analysis_config_file = NoFile
    /\ stage_pc = [st \in Stages |-> "idle"]
    /\ stage_email = [st \in Stages |-> ""]
    /\ http_requests = {}

\* The shares-outstanding extractor has not been started.
XIdle ==
    /\ companyfacts_zip = <<>>
    /\ x_pc = "idle"
    /\ needed_ciks = {}
    /\ shares_data = <<>>

\* The ticker reference downloader has not been started.
KIdle ==
    /\ company_tickers_file = NoFile
    /\ t_pc = "idle"
    /\ t_force = FALSE
    /\ attempt = 0
    /\ t_start_files = <<>>

\* The reference-data stages at rest.
SIdle == XIdle /\ KIdle

\* The stages after the analyzer at rest, for the specifications of the others.
RestIdle == CIdle /\ TIdle /\ UIdle /\ PIdle /\ GIdle /\ SIdle

(***************************************************************************)
(* Filing analyzer                                                         *)
(***************************************************************************)
min_filing_year == 2020

Years == {2024, 2025}
OutputQuarters == {QY(q, y) : q \in 1..4, y \in Years}

\* The previous quarter: Q1 wraps to Q4 of the year before.
PrevQuarter(qy) ==
    IF qy.quarter > 1 THEN QY(qy.quarter - 1, qy.year) ELSE QY(4, qy.year - 1)

\* company_name: the name of the CIK metadata, else "CIK <cik>"; one name per CIK.
CompanyName(cik) == cik

\* Selection that also takes an amendment of the target period.
TargetSlotsWithAmendments(dir, qy) ==
    {s \in Slots : /\ dir[s].present
                   /\ ExtractFilingPeriod(dir[s]) # NoPeriod
                   /\ ExtractFilingPeriod(dir[s]).quarter = qy.quarter
                   /\ ExtractFilingPeriod(dir[s]).year = qy.year}

\* process_all_filings: the main (non-amendment) filings of a CIK directory whose
\* period is the target quarter and year.
TargetSlots(dir, qy) ==
    {s \in Slots : /\ dir[s].present
                   /\ ~dir[s].amend
                   /\ ExtractFilingPeriod(dir[s]) # NoPeriod
                   /\ ExtractFilingPeriod(dir[s]).quarter = qy.quarter
                   /\ ExtractFilingPeriod(dir[s]).year = qy.year}

\* The first match of sorted(all_filings, reverse=True), or no filing.
TargetFiling(dir, qy) ==
    IF TargetSlots(dir, qy) = {} THEN NoFiling
    ELSE dir[CHOOSE s \in TargetSlots(dir, qy) : \A t \in TargetSlots(dir, qy) : t <= s]

\* parse_13f_filing: nothing from a filing older than min_filing_year; a row is
\* kept when it has a CUSIP and a non-zero share count; value is in thousands.
ParseFiling(f) ==
    IF f.report # NoReport /\ f.report.year < min_filing_year THEN <<>>
    ELSE LET kept == SelectSeq(f.lines, LAMBDA l : l.cusip # 0 /\ l.shares # 0)
         IN  [i \in DOMAIN kept |->
                 [cusip |-> kept[i].cusip, shares |-> kept[i].shares,
                  value |-> kept[i].value * 1000]]

EmptyPositions == [n \in {} |-> [shares |-> 0, value |-> 0]]

\* The default entry of self.current_holdings.
NewHolding(cusip) ==
    [cusip |-> cusip, shares |-> 0, value |-> 0, holders |-> <<>>,
     positions |-> EmptyPositions, shares_outstanding |-> 0]

\* The index of a CUSIP in the holdings (a dict in insertion order), 0 if absent.
IndexOf(holdings, cusip) ==
    IF \E i \in DOMAIN holdings : holdings[i].cusip = cusip
    THEN CHOOSE i \in DOMAIN holdings : holdings[i].cusip = cusip
    ELSE 0

\* The pass that stores the institution's position of the last line instead of
\* summing the lines.
AddHoldingLastLine(holdings, name, h) ==
    LET base == IF IndexOf(holdings, h.cusip) = 0
                THEN Append(holdings, NewHolding(h.cusip)) ELSE holdings
        i    == IndexOf(base, h.cusip)
        old  == base[i]
    IN  [base EXCEPT ![i] =
            [cusip |-> old.cusip,
             shares |-> old.shares + h.shares,
             value |-> old.value + h.value,
             holders |-> IF \E k \in DOMAIN old.holders : old.holders[k] = name
                         THEN old.holders ELSE Append(old.holders, name),
             positions |-> [n \in DOMAIN old.positions \cup {name} |->
                               IF n = name THEN [shares |-> h.shares, value |-> h.value]
                               ELSE old.positions[n]],
             shares_outstanding |-> old.shares_outstanding]]

\* One pass of "for holding in holdings": shares and value are summed per CUSIP,
\* the institution's position is summed, the institution is listed once.
AddHolding(holdings, name, h) ==
    LET base == IF IndexOf(holdings, h.cusip) = 0
                THEN Append(holdings, NewHolding(h.cusip)) ELSE holdings
        i    == IndexOf(base, h.cusip)
        old  == base[i]
        pos  == IF name \in DOMAIN old.positions THEN old.positions[name]
                ELSE [shares |-> 0, value |-> 0]
    IN  [base EXCEPT ![i] =
            [cusip |-> old.cusip,
             shares |-> old.shares + h.shares,
             value |-> old.value + h.value,
             holders |-> IF \E k \in DOMAIN old.holders : old.holders[k] = name
                         THEN old.holders ELSE Append(old.holders, name),
             positions |-> [n \in DOMAIN old.positions \cup {name} |->
                               IF n = name
                               THEN [shares |-> pos.shares + h.shares,
                                     value |-> pos.value + h.value]
                               ELSE old.positions[n]],
             shares_outstanding |-> old.shares_outstanding]]

RECURSIVE AggregateHoldings(_, _, _)
AggregateHoldings(holdings, name, parsed) ==
    IF parsed = <<>> THEN holdings
    ELSE AggregateHoldings(AddHolding(holdings, name, Head(parsed)), name, Tail(parsed))

\* The loop of process_all_filings over the CIK directories, in the order of the glob.
RECURSIVE ProcessAllFilings(_, _, _, _)
ProcessAllFilings(holdings, fs, qy, order) ==
    IF order = <<>> THEN holdings
    ELSE LET cik == Head(order)
             f   == TargetFiling(fs[cik], qy)
         IN  ProcessAllFilings(
                 IF f = NoFiling THEN holdings
                 ELSE AggregateHoldings(holdings, CompanyName(cik), ParseFiling(f)),
                 fs, qy, Tail(order))

\* The filing period process_all_filings records for a processed filing: the
\* period of its header unless filing_metadata.json has an entry for the CIK
\* with a filing_period, which replaces it.
RecordedPeriod(f, metadata, cik) ==
    IF cik \in DOMAIN metadata /\ metadata[cik] # NoPeriod
    THEN metadata[cik]
    ELSE ExtractFilingPeriod(f)

\* self.institution_filing_periods after process_all_filings: an entry for every
\* institution whose target filing was processed.
FilingPeriodsOf(fs, metadata, qy) ==
    [name \in {CompanyName(cik) : cik \in {c \in CIKs : TargetFiling(fs[c], qy) # NoFiling}} |->
        LET cik == CHOOSE c \in CIKs : CompanyName(c) = name
        IN  RecordedPeriod(TargetFiling(fs[cik], qy), metadata, cik)]

\* The orders in which glob("*") can list the CIK directories.
GlobOrders == {o \in [1..Cardinality(CIKs) -> CIKs] : \A i, j \in DOMAIN o : i # j => o[i] # o[j]}

\* ---- enrichment and its cache ----
NoSharesFile == [mtime |-> 0, mappings |-> <<>>]

\* load_cusip_shares_mapping: the mappings of the file, {} when it does not exist.
LoadCusipSharesMapping(file) == IF file.mtime = 0 THEN <<>> ELSE file.mappings

\* enrich_holdings: a holding whose CUSIP is mapped takes the shares outstanding
\* of the mapping (0 stands for null); any other holding is left as it is.
EnrichHoldings(holdings, mappings) ==
    [i \in DOMAIN holdings |->
        IF holdings[i].cusip \in DOMAIN mappings
        THEN [holdings[i] EXCEPT !.shares_outstanding = mappings[holdings[i].cusip]]
        ELSE holdings[i]]

NoCache == [exists |-> FALSE]

\* save_enriched_holdings: the cache file that is written (timestamp 0 is null).
SaveEnrichedHoldings(holdings, qy, file) ==
    [exists |-> TRUE, qy |-> qy, cache_version |-> "2.0",
     cusip_to_shares_timestamp |-> file.mtime, holdings |-> holdings]

\* sum(1 for h in holdings.values() if 'shares_outstanding' in h and h['shares_outstanding'])
HoldingsWithShares(holdings) ==
    Cardinality({i \in DOMAIN holdings : holdings[i].shares_outstanding # 0})

\* A cache check that does not look at the dependency timestamp.
LoadEnrichedHoldingsNoTimestamp(cache, qy, file) ==
    /\ cache.exists
    /\ cache.qy = qy
    /\ cache.cache_version = "2.0"
    /\ Len(cache.holdings) > 0
    /\ ~(HoldingsWithShares(cache.holdings) * 100 < 25 * Len(cache.holdings))

\* load_enriched_holdings: TRUE when the cache is taken. The checks in the order
\* of the code: the file exists, quarter and year, version, the mapping file (if
\* it exists) is not newer than the recorded timestamp (a null timestamp raises
\* and is caught), at least 25% of the cached holdings have shares outstanding.
LoadEnrichedHoldings(cache, qy, file) ==
    /\ cache.exists
    /\ cache.qy = qy
    /\ cache.cache_version = "2.0"
    /\ file.mtime # 0 =>
           /\ cache.cusip_to_shares_timestamp # 0
           /\ ~(file.mtime > cache.cusip_to_shares_timestamp)
    /\ Len(cache.holdings) > 0
    /\ ~(HoldingsWithShares(cache.holdings) * 100 < 25 * Len(cache.holdings))

\* Cached holdings written over the holdings of the run, which keep every CUSIP
\* the cache does not have.
HoldingsMergedWithCache(holdings, cache) ==
    cache.holdings \o SelectSeq(holdings,
                                LAMBDA h : \A i \in DOMAIN cache.holdings :
                                               cache.holdings[i].cusip # h.cusip)

\* load_enriched_holdings, the cache being taken: self.current_holdings is a new
\* dictionary that receives the cached holdings, one per CUSIP.
HoldingsFromCache(holdings, cache) == cache.holdings

\* ---- calculate_metrics ----
\* A filter that lets every security with positive shares outstanding through.
IsAcceptedUncapped(h) == h.shares_outstanding > 0

\* shares_outstanding is set and positive, and shares / shares_outstanding * 100
\* is not greater than 101.
IsAccepted(h) ==
    /\ h.shares_outstanding > 0
    /\ ~(h.shares * 100 > 101 * h.shares_outstanding)

\* The entry appended to total_holdings_pct (pct_of_shares is shares * 100 /
\* shares_outstanding, kept as the two numbers).
AcceptedEntry(h) ==
    [cusip |-> h.cusip, shares |-> h.shares, value |-> h.value,
     shares_outstanding |-> h.shares_outstanding,
     num_holders |-> Len(h.holders), holders |-> h.holders,
     positions |-> h.positions]

\* a's pct_of_shares is less than b's.
PctLess(a, b) == a.shares * b.shares_outstanding < b.shares * a.shares_outstanding

RECURSIVE InsertByPct(_, _)
InsertByPct(sorted, e) ==
    IF sorted = <<>> THEN <<e>>
    ELSE IF PctLess(Head(sorted), e) THEN <<e>> \o sorted
    ELSE <<Head(sorted)>> \o InsertByPct(Tail(sorted), e)

\* sort(key=pct_of_shares, reverse=True): descending and stable.
RECURSIVE SortByPct(_)
SortByPct(list) ==
    IF list = <<>> THEN <<>>
    ELSE InsertByPct(SortByPct(SubSeq(list, 1, Len(list) - 1)), list[Len(list)])

\* The accepted list of calculate_metrics: filtered, then sorted.
TotalHoldingsPct(holdings) ==
    LET kept == SelectSeq(holdings, IsAccepted)
    IN  SortByPct([i \in DOMAIN kept |-> AcceptedEntry(kept[i])])

\* ---- output files ----
NoOutput == [exists |-> FALSE]

\* round(pct_of_shares, 4), in ten-thousandths of a percent.
Round4(shares, so) == (shares * 100 * 10000 * 2 + so) \div (2 * so)

\* generate_json_output: one element of "securities"; the comparison fields are
\* null unless the item carries them.
JsonSecurity(item) ==
    LET base == [cusip |-> item.cusip, shares_held |-> item.shares,
                 shares_outstanding |-> item.shares_outstanding,
                 pct_of_shares_outstanding |-> Round4(item.shares, item.shares_outstanding),
                 value_usd |-> item.value, num_holders |-> item.num_holders,
                 holders |-> item.holders, positions |-> item.positions]
    IN  IF "net_adds" \in DOMAIN item
        THEN base @@ [k \in {"net_adds", "shares_change", "value_change",
                             "net_institutional_change", "new_holders",
                             "dropped_holders", "institution_changes",
                             "prev_shares", "prev_value", "prev_num_holders"} |-> item[k]]
        ELSE base

GenerateJsonOutput(data) ==
    [exists |-> TRUE, securities |-> [i \in DOMAIN data |-> JsonSecurity(data[i])]]

\* Path("output/<Q>_<year>/total_holdings_data.json").exists(): the path is relative
\* to the working directory, the files are under <root>/output.
PrevDataFileExists(wd, files, qy) ==
    /\ wd = "root"
    /\ qy \in DOMAIN files
    /\ files[qy].exists

\* has_filings_for_quarter: some full-submission.txt, amendment or not, whose
\* header has the quarter-end date of that quarter as its period of report.
HasFilingsForQuarter(fs, qy) ==
    \E cik \in CIKs, s \in Slots :
        /\ fs[cik][s].present
        /\ fs[cik][s].report = [year |-> qy.year, month |-> 3 * qy.quarter]

\* ---- calculate_quarterly_net_adds ----
SeqToSet(seq) == {seq[i] : i \in DOMAIN seq}

\* prev_positions_by_cusip.get(cusip, <zero entry>) from the securities of the
\* previous quarter's total_holdings_data.json.
PrevSecurity(prev_data, cusip) ==
    IF \E i \in DOMAIN prev_data.securities : prev_data.securities[i].cusip = cusip
    THEN LET s == prev_data.securities[
                      CHOOSE i \in DOMAIN prev_data.securities :
                          /\ prev_data.securities[i].cusip = cusip
                          /\ \A j \in DOMAIN prev_data.securities :
                                 prev_data.securities[j].cusip = cusip => j <= i]
         IN  [shares |-> s.shares_held, value |-> s.value_usd,
              holders |-> SeqToSet(s.holders), positions |-> s.positions]
    ELSE [shares |-> 0, value |-> 0, holders |-> {}, positions |-> EmptyPositions]

\* positions.get(inst_name, {'shares': 0}).get('shares', 0)
PositionShares(positions, name) ==
    IF name \in DOMAIN positions THEN positions[name].shares ELSE 0

\* Institution changes that list every continuing holder, changed or not.
InstitutionChangesAll(cur_holders, cur_positions, prev_holders, prev_positions) ==
    [n \in cur_holders \cup prev_holders |->
        [shares_change |-> (IF n \in cur_holders THEN PositionShares(cur_positions, n) ELSE 0)
                           - (IF n \in prev_holders THEN PositionShares(prev_positions, n) ELSE 0),
         prev_shares |-> IF n \in prev_holders THEN PositionShares(prev_positions, n) ELSE 0,
         current_shares |-> IF n \in cur_holders THEN PositionShares(cur_positions, n) ELSE 0]]

\* Institution changes without the entries of the dropped holders.
InstitutionChangesNoDropped(cur_holders, cur_positions, prev_holders, prev_positions) ==
    [n \in {m \in cur_holders :
               m \in prev_holders =>
                   PositionShares(cur_positions, m) # PositionShares(prev_positions, m)} |->
        [shares_change |-> PositionShares(cur_positions, n)
                           - (IF n \in prev_holders THEN PositionShares(prev_positions, n) ELSE 0),
         prev_shares |-> IF n \in prev_holders THEN PositionShares(prev_positions, n) ELSE 0,
         current_shares |-> PositionShares(cur_positions, n)]]

\* institution_changes: continuing holders whose share count changed, then the
\* new holders, then the dropped holders.
InstitutionChanges(cur_holders, cur_positions, prev_holders, prev_positions) ==
    LET new_holders     == cur_holders \ prev_holders
        dropped_holders == prev_holders \ cur_holders
        changed == {n \in cur_holders \cap prev_holders :
                       PositionShares(cur_positions, n) - PositionShares(prev_positions, n) # 0}
    IN  [n \in changed \cup new_holders \cup dropped_holders |->
            IF n \in new_holders
            THEN [shares_change |-> PositionShares(cur_positions, n),
                  prev_shares |-> 0,
                  current_shares |-> PositionShares(cur_positions, n)]
            ELSE IF n \in dropped_holders
            THEN [shares_change |-> 0 - PositionShares(prev_positions, n),
                  prev_shares |-> PositionShares(prev_positions, n),
                  current_shares |-> 0]
            ELSE [shares_change |-> PositionShares(cur_positions, n)
                                    - PositionShares(prev_positions, n),
                  prev_shares |-> PositionShares(prev_positions, n),
                  current_shares |-> PositionShares(cur_positions, n)]]

\* The quarterly_add entry of one security of the accepted list.
QuarterlyAdd(security, prev_data) ==
    LET prev_security   == PrevSecurity(prev_data, security.cusip)
        current_holders == SeqToSet(security.holders)
        prev_holders    == prev_security.holders
        new_holders     == current_holders \ prev_holders
        dropped_holders == prev_holders \ current_holders
        net == Cardinality(new_holders) - Cardinality(dropped_holders)
    IN  [cusip |-> security.cusip, shares |-> security.shares, value |-> security.value,
         shares_outstanding |-> security.shares_outstanding,
         num_holders |-> security.num_holders, holders |-> security.holders,
         positions |-> security.positions,
         shares_change |-> security.shares - prev_security.shares,
         value_change |-> security.value - prev_security.value,
         net_institutional_change |-> net,
         net_adds |-> net,
         new_holders |-> new_holders,
         dropped_holders |-> dropped_holders,
         institution_changes |-> InstitutionChanges(current_holders, security.positions,
                                                    prev_holders, prev_security.positions),
         prev_shares |-> prev_security.shares,
         prev_value |-> prev_security.value,
         prev_num_holders |-> Cardinality(prev_holders)]

RECURSIVE InsertByNetChange(_, _)
InsertByNetChange(sorted, e) ==
    IF sorted = <<>> THEN <<e>>
    ELSE IF Head(sorted).net_institutional_change < e.net_institutional_change
    THEN <<e>> \o sorted
    ELSE <<Head(sorted)>> \o InsertByNetChange(Tail(sorted), e)

\* sort(key=net_institutional_change, reverse=True): descending and stable.
RECURSIVE SortByNetChange(_)
SortByNetChange(list) ==
    IF list = <<>> THEN <<>>
    ELSE InsertByNetChange(SortByNetChange(SubSeq(list, 1, Len(list) - 1)), list[Len(list)])

\* A diff that also reports the securities of the previous quarter that the
\* current list no longer has, as records with no holder left.
CalculateQuarterlyNetAddsWithVanished(current_holdings_pct, prev_data) ==
    LET held == {current_holdings_pct[i].cusip : i \in DOMAIN current_holdings_pct}
        vanished == SelectSeq(prev_data.securities, LAMBDA p : p.cusip \notin held)
        gone(p) == [cusip |-> p.cusip, shares |-> 0, value |-> 0,
                    shares_outstanding |-> p.shares_outstanding,
                    num_holders |-> 0, holders |-> <<>>, positions |-> EmptyPositions]
    IN  SortByNetChange([i \in DOMAIN current_holdings_pct |->
                            QuarterlyAdd(current_holdings_pct[i], prev_data)]
                        \o [i \in DOMAIN vanished |-> QuarterlyAdd(gone(vanished[i]), prev_data)])

\* The diff against the loaded previous quarter, sorted.
CalculateQuarterlyNetAdds(current_holdings_pct, prev_data) ==
    SortByNetChange([i \in DOMAIN current_holdings_pct |->
                        QuarterlyAdd(current_holdings_pct[i], prev_data)])

\* ---- the run: main, run_analysis ----
Targets == {QY(1, 2025), QY(2, 2025)}

NoArgs == [quarter |-> 0, year |-> 0, force_refresh |-> FALSE]

\* No analyzer has been constructed.
ANotRunning ==
    /\ a_pc = "idle"
    /\ cwd = "root"
    /\ a_args = NoArgs
    /\ a_phase = "target"
    /\ a_self = QY(0, 0)
    /\ current_holdings = <<>>
    /\ total_holdings_pct = <<>>
    /\ quarterly_adds_pct = <<>>
    /\ a_cache_used = FALSE
    /\ a_nested = FALSE
    /\ institution_filing_periods = <<>>

\* No output directory has a data file.
NoOutputs ==
    /\ total_holdings_file = [qy \in OutputQuarters |-> NoOutput]
    /\ quarterly_adds_file = [qy \in OutputQuarters |-> NoOutput]

\* The analyzer at rest, for the specifications of the other stages.
AIdle ==
    /\ cusip_to_shares_file = NoSharesFile
    /\ analysis_progress_file = ""
    /\ enriched_cache_file = NoCache
    /\ NoOutputs
    /\ ANotRunning

\* main: the previous quarter is analysed first when its total_holdings_data.json
\* is not found; Filing13FAnalyzer(...) is constructed and, with --force-refresh,
\* the progress file and the enriched cache are deleted.
AnalyzerMain ==
    /\ a_pc \in {"idle", "done", "crashed"}
    /\ \E target \in Targets, force_refresh \in BOOLEAN, wd \in {"root", "pipeline"} :
        LET run_prev == ~PrevDataFileExists(wd, total_holdings_file, PrevQuarter(target))
        IN  /\ a_args' = [quarter |-> target.quarter, year |-> target.year,
                          force_refresh |-> force_refresh]
            /\ cwd' = wd
            /\ a_phase' = IF run_prev THEN "prev" ELSE "target"
            /\ a_self' = IF run_prev THEN PrevQuarter(target) ELSE target
            /\ analysis_progress_file' = IF force_refresh THEN "" ELSE analysis_progress_file
            /\ enriched_cache_file' = IF force_refresh THEN NoCache ELSE enriched_cache_file
    /\ current_holdings' = <<>>
    /\ total_holdings_pct' = <<>>
    /\ quarterly_adds_pct' = <<>>
    /\ a_cache_used' = FALSE
    /\ a_nested' = FALSE
    /\ institution_filing_periods' = <<>>
    /\ a_pc' = "process"
    /\ UNCHANGED <<cusip_to_shares_file, total_holdings_file, quarterly_adds_file,
                   mapperVars, fsVars, downloaderVars, restVars>>

\* run_analysis, first step: process_all_filings.
AnalyzerProcessAllFilings ==
    /\ a_pc = "process"
    /\ \E order \in GlobOrders :
           current_holdings' = ProcessAllFilings(<<>>, filings, a_self, order)
    /\ institution_filing_periods' = FilingPeriodsOf(filings, filing_metadata_file, a_self)
    /\ a_pc' = "metrics"
    /\ UNCHANGED <<cusip_to_shares_file, analysis_progress_file, enriched_cache_file,
                   total_holdings_file, quarterly_adds_file, cwd, a_args, a_phase, a_self,
                   total_holdings_pct, quarterly_adds_pct, a_cache_used, a_nested,
                   mapperVars, fsVars, downloaderVars, restVars>>

\* run_analysis, second step: calculate_metrics with its call of
\* calculate_quarterly_net_adds. The cache is tried when the progress file says
\* enrichment_complete; otherwise, or when the cache is refused, the holdings are
\* enriched and the cache and the progress file are written. When the previous
\* quarter's file is not found and raw filings of that quarter exist, the nested
\* analyzer is constructed, processes the filings, and the call of
\* prev_analyzer.analyze_holdings(), a method the class does not have, raises
\* AttributeError: the run ends there.
AnalyzerCalculateMetrics ==
    /\ a_pc = "metrics"
    /\ LET hit      == /\ analysis_progress_file = "enrichment_complete"
                       /\ LoadEnrichedHoldings(enriched_cache_file, a_self, cusip_to_shares_file)
           holdings == IF hit THEN HoldingsFromCache(current_holdings, enriched_cache_file)
                       ELSE EnrichHoldings(current_holdings,
                                           LoadCusipSharesMapping(cusip_to_shares_file))
           total    == TotalHoldingsPct(holdings)
           prev     == PrevQuarter(a_self)
           found    == PrevDataFileExists(cwd, total_holdings_file, prev)
           nested   == ~found /\ HasFilingsForQuarter(filings, prev)
       IN  /\ current_holdings' = holdings
           /\ a_cache_used' = hit
           /\ enriched_cache_file' =
                  IF hit THEN enriched_cache_file
                  ELSE SaveEnrichedHoldings(holdings, a_self, cusip_to_shares_file)
           /\ analysis_progress_file' = "enrichment_complete"
           /\ a_nested' = nested
           /\ a_pc' = IF nested THEN "crashed" ELSE "output"
           /\ total_holdings_pct' = IF nested THEN total_holdings_pct ELSE total
           /\ quarterly_adds_pct' =
                  IF nested THEN quarterly_adds_pct
                  ELSE IF found
                  THEN CalculateQuarterlyNetAdds(total, total_holdings_file[prev])
                  ELSE total
    /\ UNCHANGED <<cusip_to_shares_file, total_holdings_file, quarterly_adds_file,
                   cwd, a_args, a_phase, a_self, institution_filing_periods, mapperVars,
                   fsVars, downloaderVars, restVars>>

\* run_analysis, last step: the two JSON files are written to the output
\* directory of the analyzer's quarter.
AnalyzerGenerateOutputs ==
    /\ a_pc = "output"
    /\ total_holdings_file' =
           [total_holdings_file EXCEPT ![a_self] = GenerateJsonOutput(total_holdings_pct)]
    /\ quarterly_adds_file' =
           [quarterly_adds_file EXCEPT ![a_self] = GenerateJsonOutput(quarterly_adds_pct)]
    /\ a_pc' = IF a_phase = "prev" THEN "next" ELSE "done"
    /\ UNCHANGED <<cusip_to_shares_file, analysis_progress_file, enriched_cache_file,
                   cwd, a_args, a_phase, a_self, current_holdings, total_holdings_pct,
                   quarterly_adds_pct, a_cache_used, a_nested, institution_filing_periods,
                   mapperVars, fsVars, downloaderVars, restVars>>

\* main, after the previous quarter's run: the target quarter's analyzer is
\* constructed, the caches deleted again with --force-refresh.
AnalyzerMainTarget ==
    /\ a_pc = "next"
    /\ a_phase' = "target"
    /\ a_self' = QY(a_args.quarter, a_args.year)
    /\ analysis_progress_file' = IF a_args.force_refresh THEN "" ELSE analysis_progress_file
    /\ enriched_cache_file' = IF a_args.force_refresh THEN NoCache ELSE enriched_cache_file
    /\ current_holdings' = <<>>
    /\ total_holdings_pct' = <<>>
    /\ quarterly_adds_pct' = <<>>
    /\ a_cache_used' = FALSE
    /\ a_nested' = FALSE
    /\ institution_filing_periods' = <<>>
    /\ a_pc' = "process"
    /\ UNCHANGED <<cusip_to_shares_file, total_holdings_file, quarterly_adds_file,
                   cwd, a_args, mapperVars, fsVars, downloaderVars, restVars>>

ANext ==
    \/ AnalyzerMain
    \/ AnalyzerProcessAllFilings
    \/ AnalyzerCalculateMetrics
    \/ AnalyzerGenerateOutputs
    \/ AnalyzerMainTarget

\* ---- filings on disk for the selection of process_all_filings ----
\* Every filing holds CUSIP 1 with a share count of its own, so that a position
\* tells which filing it was read from.
SharesOf(cik, s) == (IF cik = "c1" THEN 10 ELSE 20) + s
LinesOf(cik, s)  == <<Line(1, SharesOf(cik, s), 1)>>

SelectReports == {[year |-> 2024, month |-> 12], [year |-> 2025, month |-> 3],
                  [year |-> 2024, month |-> 3], NoReport}

\* c1 has any two filings, main or amendment, of any of the periods; c2 has no
\* filing, or one main filing, or one amendment, of the first quarter of 2025.
SelectFilings ==
    {[cik \in CIKs |-> IF cik = "c1" THEN d1 ELSE d2] :
        d1 \in [Slots -> {NoFiling} \cup
                    {Filing(am, r, LinesOf("c1", 1)) : am \in BOOLEAN, r \in SelectReports}],
        d2 \in {NoFilings} \cup
               {[s \in Slots |-> IF s = 1
                                 THEN Filing(am, [year |-> 2025, month |-> 3], LinesOf("c2", 1))
                                 ELSE NoFiling] : am \in BOOLEAN}}

SelectSharesFile == [mtime |-> 1, mappings |-> [c \in {1} |-> 1000]]

InitSelect ==
    /\ MIdle
    /\ RestIdle
    /\ DIdle
    /\ filing_metadata_file = <<>>
    /\ filings \in SelectFilings
    /\ cusip_to_shares_file = SelectSharesFile
    /\ analysis_progress_file = ""
    /\ enriched_cache_file = NoCache
    /\ NoOutputs
    /\ ANotRunning

\* The filing is a main filing whose period is the quarter and year qy.
IsTargetMainFiling(f, qy) ==
    /\ f.present
    /\ ~f.amend
    /\ ExtractFilingPeriod(f).quarter = qy.quarter
    /\ ExtractFilingPeriod(f).year = qy.year

\* C1: after process_all_filings, every position of an institution was read from a
\* non-amendment filing of that institution whose period is exactly the target
\* quarter and year; an institution with no such filing (only an amendment for
\* the target quarter, or main filings of other quarters only) holds nothing.
C1_OnlyTargetMainFilingContributes ==
    a_pc = "metrics" =>
        \A cik \in CIKs :
            /\ \A i \in DOMAIN current_holdings :
                   CompanyName(cik) \in DOMAIN current_holdings[i].positions =>
                       \E s \in Slots :
                           /\ IsTargetMainFiling(filings[cik][s], a_self)
                           /\ \E k \in DOMAIN filings[cik][s].lines :
                                  /\ filings[cik][s].lines[k].cusip = current_holdings[i].cusip
                                  /\ filings[cik][s].lines[k].shares =
                                         current_holdings[i].positions[CompanyName(cik)].shares
            /\ (~\E s \in Slots : IsTargetMainFiling(filings[cik][s], a_self)) =>
                   \A i \in DOMAIN current_holdings :
                       /\ CompanyName(cik) \notin DOMAIN current_holdings[i].positions
                       /\ CompanyName(cik) \notin SeqToSet(current_holdings[i].holders)

\* c1 has a main filing of another quarter and a later amendment of the target
\* quarter and holds nothing, while c2's main filing of the target quarter is counted.
C1_Witness ==
    /\ a_pc = "metrics"
    /\ a_phase = "target"
    /\ filings["c1"][1].present /\ ~filings["c1"][1].amend
    /\ ExtractFilingPeriod(filings["c1"][1]).quarter = 4
    /\ filings["c1"][2].present /\ filings["c1"][2].amend
    /\ ExtractFilingPeriod(filings["c1"][2]).quarter = a_self.quarter
    /\ ExtractFilingPeriod(filings["c1"][2]).year = a_self.year
    /\ Len(current_holdings) = 1
    /\ current_holdings[1].holders = <<CompanyName("c2")>>

\* C3: once calculate_quarterly_net_adds has found raw filings of the missing
\* previous quarter and started the nested analysis, that quarter's
\* total_holdings_data.json is persisted and the run goes on to its own diff.
C3_NestedAnalysisPersisted ==
    a_nested =>
        /\ total_holdings_file[PrevQuarter(a_self)].exists
        /\ a_pc # "crashed"

\* ---- filings on disk for the quarter-over-quarter diff ----
\* Each CIK has a main filing of Q4 2024 and a later main filing of Q1 2025; a
\* row with 0 shares is a row the parser drops.
DiffFilings ==
    {[cik \in CIKs |->
        IF cik = "c1"
        THEN <<Filing(FALSE, [year |-> 2024, month |-> 12], <<Line(1, p1, 1), Line(2, p2, 1)>>),
               Filing(FALSE, [year |-> 2025, month |-> 3], <<Line(1, q1, 2), Line(2, q2, 2)>>)>>
        ELSE <<Filing(FALSE, [year |-> 2024, month |-> 12], <<Line(1, r1, 1)>>),
               Filing(FALSE, [year |-> 2025, month |-> 3], <<Line(1, s1, 2)>>)>>] :
        p1 \in {0, 10, 20}, p2 \in {0, 5}, q1 \in {0, 10, 20}, q2 \in {0, 5},
        r1 \in {0, 10, 20}, s1 \in {0, 10, 20}}

DiffSharesFile == [mtime |-> 1, mappings |-> [c \in {1, 2} |-> 1000]]

InitDiff ==
    /\ MIdle
    /\ RestIdle
    /\ DIdle
    /\ filing_metadata_file = <<>>
    /\ filings \in DiffFilings
    /\ cusip_to_shares_file = DiffSharesFile
    /\ analysis_progress_file = ""
    /\ enriched_cache_file = NoCache
    /\ NoOutputs
    /\ ANotRunning

\* The securities of the previous quarter's file that carry the CUSIP.
PriorRecords(cusip) ==
    {s \in SeqToSet(total_holdings_file[PrevQuarter(a_self)].securities) : s.cusip = cusip}

PriorHolders(cusip) == UNION {SeqToSet(s.holders) : s \in PriorRecords(cusip)}

\* The shares of an institution's position in the previous quarter's file.
PriorShares(cusip, name) ==
    IF \E s \in PriorRecords(cusip) : name \in DOMAIN s.positions
    THEN (CHOOSE s \in PriorRecords(cusip) : name \in DOMAIN s.positions).positions[name].shares
    ELSE 0

\* C2: when the diff against the previous quarter's file has been computed, there
\* is one record per security of the accepted list, and in each record
\* new_holders is current minus prior holders, dropped_holders is prior minus
\* current, net_institutional_change is |new| - |dropped|, a new holder's
\* shares_change is its current shares (prev 0), a dropped holder's is minus its
\* prior shares (current 0), and a continuing holder is listed exactly when its
\* share count changed, with shares_change = current - prior.
C2_NetAddsDiff ==
    (a_pc = "output" /\ PrevDataFileExists(cwd, total_holdings_file, PrevQuarter(a_self))) =>
        /\ Len(quarterly_adds_pct) = Len(total_holdings_pct)
        /\ {quarterly_adds_pct[i].cusip : i \in DOMAIN quarterly_adds_pct}
               = {total_holdings_pct[i].cusip : i \in DOMAIN total_holdings_pct}
        /\ \A i \in DOMAIN quarterly_adds_pct :
             LET r     == quarterly_adds_pct[i]
                 cur   == SeqToSet(r.holders)
                 prior == PriorHolders(r.cusip)
                 ic    == r.institution_changes
             IN  /\ r.new_holders = cur \ prior
                 /\ r.dropped_holders = prior \ cur
                 /\ r.net_institutional_change
                        = Cardinality(r.new_holders) - Cardinality(r.dropped_holders)
                 /\ DOMAIN ic \subseteq cur \cup prior
                 /\ \A n \in cur \ prior :
                        /\ n \in DOMAIN ic
                        /\ ic[n].shares_change = r.positions[n].shares
                        /\ ic[n].prev_shares = 0
                        /\ ic[n].current_shares = r.positions[n].shares
                 /\ \A n \in prior \ cur :
                        /\ n \in DOMAIN ic
                        /\ ic[n].shares_change = 0 - PriorShares(r.cusip, n)
                        /\ ic[n].prev_shares = PriorShares(r.cusip, n)
                        /\ ic[n].current_shares = 0
                 /\ \A n \in cur \cap prior :
                        /\ (n \in DOMAIN ic) <=> (r.positions[n].shares # PriorShares(r.cusip, n))
                        /\ n \in DOMAIN ic =>
                               ic[n].shares_change = r.positions[n].shares - PriorShares(r.cusip, n)

\* CUSIP 1 was held by c1 (10 shares) in the previous quarter only and is held by
\* c2 (20 shares) in the current quarter only: c1 dropped with -10, c2 new with
\* +20, net change 0.
C2_Witness ==
    /\ a_pc = "output"
    /\ PrevDataFileExists(cwd, total_holdings_file, PrevQuarter(a_self))
    /\ \E i \in DOMAIN quarterly_adds_pct :
           /\ quarterly_adds_pct[i].cusip = 1
           /\ quarterly_adds_pct[i].dropped_holders = {CompanyName("c1")}
           /\ quarterly_adds_pct[i].new_holders = {CompanyName("c2")}
           /\ quarterly_adds_pct[i].net_institutional_change = 0
           /\ quarterly_adds_pct[i].institution_changes[CompanyName("c1")].shares_change = 0 - 10
           /\ quarterly_adds_pct[i].institution_changes[CompanyName("c2")].shares_change = 20

\* C22: from either working directory, when calculate_quarterly_net_adds has
\* run and <root>/output/<Quarter>_<Year>/total_holdings_data.json of the
\* preceding quarter is there, written by an earlier analysis, it is the file
\* the run found and read: no nested analysis was started and the change
\* records are the diff against that file.
C22_PriorOutputFound ==
    (/\ a_pc \in {"output", "crashed"}
     /\ total_holdings_file[PrevQuarter(a_self)].exists) =>
        /\ ~a_nested
        /\ a_pc = "output"
        /\ quarterly_adds_pct =
               CalculateQuarterlyNetAdds(total_holdings_pct,
                                         total_holdings_file[PrevQuarter(a_self)])

\* ---- holdings around the 101 percent cap ----
\* Main filings of Q1 2025 whose share counts add up to 100, 101 or 102 against
\* 100 shares outstanding; the mapping has no entry, a null, a negative or a
\* positive number of shares outstanding.
MetricsFilings ==
    {[cik \in CIKs |->
        IF cik = "c1"
        THEN <<Filing(FALSE, [year |-> 2025, month |-> 3], <<Line(1, a, 1), Line(2, b, 1)>>),
               NoFiling>>
        ELSE <<Filing(FALSE, [year |-> 2025, month |-> 3], <<Line(1, c, 1)>>), NoFiling>>] :
        a \in {0, 50, 51}, b \in {0, 101, 102}, c \in {0, 50, 51}}

MetricsSharesFiles ==
    {[mtime |-> 1, mappings |-> m] : m \in PartialFns({1}, {0 - 100, 0, 100}) \cup
                                           {[k \in {1, 2} |-> so[k]] :
                                                so \in [{1, 2} -> {100, 1000}]}}

InitMetrics ==
    /\ MIdle
    /\ RestIdle
    /\ DIdle
    /\ filing_metadata_file = <<>>
    /\ filings \in MetricsFilings
    /\ cusip_to_shares_file \in MetricsSharesFiles
    /\ analysis_progress_file = ""
    /\ enriched_cache_file = NoCache
    /\ NoOutputs
    /\ ANotRunning

\* C4: of the enriched holdings, a security above 101 percent of its shares
\* outstanding is not in the accepted list and a security at exactly 101 percent
\* is; every accepted security, and every security of a total_holdings_data.json,
\* has positive shares outstanding and at most 101 percent.
C4_CapAt101 ==
    /\ a_pc = "output" =>
        /\ \A i \in DOMAIN current_holdings :
             LET h  == current_holdings[i]
                 in == \E k \in DOMAIN total_holdings_pct : total_holdings_pct[k].cusip = h.cusip
             IN  /\ (h.shares_outstanding > 0 /\ h.shares * 100 > 101 * h.shares_outstanding)
                        => ~in
                 /\ (h.shares_outstanding > 0 /\ h.shares * 100 = 101 * h.shares_outstanding)
                        => in
        /\ \A k \in DOMAIN total_holdings_pct :
               /\ total_holdings_pct[k].shares_outstanding > 0
               /\ total_holdings_pct[k].shares * 100
                      <= 101 * total_holdings_pct[k].shares_outstanding
    /\ \A qy \in OutputQuarters :
           total_holdings_file[qy].exists =>
               \A k \in DOMAIN total_holdings_file[qy].securities :
                   /\ total_holdings_file[qy].securities[k].shares_outstanding > 0
                   /\ total_holdings_file[qy].securities[k].pct_of_shares_outstanding
                          <= 101 * 10000

\* CUSIP 1 is held at exactly 101 percent (50 + 51 of 100) and is accepted, CUSIP 2
\* at 102 percent and is left out.
C4_Witness ==
    /\ a_pc = "output"
    /\ \E i, j \in DOMAIN current_holdings :
           /\ current_holdings[i].cusip = 1
           /\ current_holdings[i].shares = 101
           /\ current_holdings[i].shares_outstanding = 100
           /\ current_holdings[j].cusip = 2
           /\ current_holdings[j].shares = 102
           /\ current_holdings[j].shares_outstanding = 100
    /\ Len(total_holdings_pct) = 1
    /\ total_holdings_pct[1].cusip = 1

\* ---- an enriched-holdings cache left by an earlier run ----
\* n cached holdings of which the first k carry shares outstanding.
CachedHoldings(n, k) ==
    [i \in 1..n |->
        [cusip |-> i, shares |-> 7, value |-> 7000, holders |-> <<CompanyName("c1")>>,
         positions |-> [c \in {CompanyName("c1")} |-> [shares |-> 7, value |-> 7000]],
         shares_outstanding |-> IF i <= k THEN 1000 ELSE 0]]

CacheFiles ==
    {NoCache} \cup
    {[exists |-> TRUE, qy |-> qy, cache_version |-> v, cusip_to_shares_timestamp |-> ts,
      holdings |-> h] :
        qy \in {QY(1, 2025), QY(4, 2024), QY(1, 2024)},
        v \in {"2.0", "1.0"},
        ts \in {0, 1, 2},
        h \in {CachedHoldings(4, 1), CachedHoldings(5, 1), CachedHoldings(1, 1), <<>>}}

CacheFilings ==
    [cik \in CIKs |->
        IF cik = "c1"
        THEN <<Filing(FALSE, [year |-> 2025, month |-> 3], <<Line(1, 10, 1), Line(2, 10, 1)>>),
               NoFiling>>
        ELSE NoFilings]

InitCache ==
    /\ MIdle
    /\ RestIdle
    /\ DIdle
    /\ filing_metadata_file = <<>>
    /\ filings = CacheFilings
    /\ cusip_to_shares_file \in {[mtime |-> t, mappings |-> [c \in {1} |-> 1000]] : t \in {0, 1, 2}}
    /\ analysis_progress_file \in {"", "enrichment_complete"}
    /\ enriched_cache_file \in CacheFiles
    /\ NoOutputs
    /\ ANotRunning

\* The conditions under which the cache may be reused: quarter and year are the
\* analyzer's, the version is "2.0", the mapping file (mtime 0: no file) was not
\* modified after the recorded timestamp, 25% or more of the cached holdings
\* carry shares outstanding.
CacheConditions ==
    /\ enriched_cache_file.exists
    /\ enriched_cache_file.qy = a_self
    /\ enriched_cache_file.cache_version = "2.0"
    /\ cusip_to_shares_file.mtime <= enriched_cache_file.cusip_to_shares_timestamp
    /\ 4 * HoldingsWithShares(enriched_cache_file.holdings) >= Len(enriched_cache_file.holdings)

\* C7: in every step of calculate_metrics, the cache is reused only if all the
\* conditions hold, and if one of them fails the holdings are enriched from the
\* mapping and the cache is rewritten for the analyzer's quarter with them.
C7_CacheReuse ==
    [][a_pc = "metrics" /\ a_pc' # "metrics" =>
          /\ a_cache_used' =>
                 /\ CacheConditions
                 /\ current_holdings' = enriched_cache_file.holdings
                 /\ enriched_cache_file' = enriched_cache_file
          /\ ~CacheConditions =>
                 /\ ~a_cache_used'
                 /\ current_holdings' = EnrichHoldings(current_holdings,
                                            LoadCusipSharesMapping(cusip_to_shares_file))
                 /\ enriched_cache_file'.exists
                 /\ enriched_cache_file'.qy = a_self
                 /\ enriched_cache_file'.cache_version = "2.0"
                 /\ enriched_cache_file'.cusip_to_shares_timestamp = cusip_to_shares_file.mtime
                 /\ enriched_cache_file'.holdings = current_holdings']_vars

\* A cache of four holdings, one of them with shares outstanding (exactly 25%),
\* was reused in place of the two holdings read from the filings.
C7_Witness ==
    /\ a_pc = "output"
    /\ a_cache_used
    /\ current_holdings = CachedHoldings(4, 1)
    /\ enriched_cache_file.holdings = CachedHoldings(4, 1)

(***************************************************************************)
(* Complete-chain mapper                                                   *)
(***************************************************************************)
\* ticker.upper(), on the tickers of the model.
Upper(ticker) == IF ticker = "b" THEN "B" ELSE ticker

\* is_valid_shares_data: (is_valid, reason). The checks in the order of the code;
\* a date that fromisoformat cannot parse raises inside the try and is passed.
IsValidSharesData(shares_outstanding, shares_date, now) ==
    IF shares_outstanding \in {1, 10, 12, 100, 1000, 10000}
    THEN [valid |-> FALSE, reason |-> "Placeholder value"]
    ELSE IF shares_outstanding < 100000
    THEN [valid |-> FALSE, reason |-> "Too few shares for public company"]
    ELSE IF shares_date.kind = "none"
    THEN [valid |-> FALSE, reason |-> "No date information"]
    ELSE IF shares_date.kind # "iso"
    THEN [valid |-> TRUE, reason |-> "Valid"]
    ELSE IF DayNumber(now) - DayNumber(shares_date) > 365
    THEN [valid |-> FALSE, reason |-> "Stale data"]
    ELSE IF DateLess(shares_date, Date(2024, 7, 1))
    THEN [valid |-> FALSE, reason |-> "Data too old"]
    ELSE [valid |-> TRUE, reason |-> "Valid"]

\* build_complete_mapping: the CUSIPs whose ticker has a ticker->CIK entry with a
\* CIK that has shares data: the ones is_valid_shares_data is called for.
ChainCusips(cusip_to_ticker, ticker_to_cik, cik_to_shares) ==
    {c \in DOMAIN cusip_to_ticker :
        /\ cusip_to_ticker[c] # ""
        /\ Upper(cusip_to_ticker[c]) \in DOMAIN ticker_to_cik
        /\ ticker_to_cik[Upper(cusip_to_ticker[c])] # ""
        /\ ticker_to_cik[Upper(cusip_to_ticker[c])] \in DOMAIN cik_to_shares}

\* The shares data at the end of a CUSIP's chain.
ChainSharesData(c, cusip_to_ticker, ticker_to_cik, cik_to_shares) ==
    cik_to_shares[ticker_to_cik[Upper(cusip_to_ticker[c])]]

\* Coverage without the factor 100.
CoverageAsFraction(mapped, total) ==
    IF total > 0 THEN [num |-> mapped, den |-> total] ELSE [num |-> 0, den |-> 1]

\* coverage_percentage: mapped / total * 100 as a fraction, 0 when total is 0.
CoveragePercentage(mapped, total) ==
    IF total > 0 THEN [num |-> mapped * 100, den |-> total] ELSE [num |-> 0, den |-> 1]

\* The loop body of build_complete_mapping that counts every entry whose ticker
\* has a CIK, valid or not, as a successful mapping.
OutcomeWithoutGate(ticker, ticker_to_cik, cik_to_shares, now) ==
    IF ticker = "" THEN "skipped"
    ELSE IF Upper(ticker) \notin DOMAIN ticker_to_cik THEN "missing_ticker_to_cik"
    ELSE IF ticker_to_cik[Upper(ticker)] = "" THEN "skipped"
    ELSE IF ticker_to_cik[Upper(ticker)] \notin DOMAIN cik_to_shares THEN "missing_cik_to_shares"
    ELSE "successful_mappings"

\* The loop body of build_complete_mapping for one entry of cusip_ticker_map.json:
\* the counter it increments, or "skipped" where it continues without counting
\* (no ticker; a ticker->CIK entry without a CIK).
Outcome(ticker, ticker_to_cik, cik_to_shares, now) ==
    IF ticker = "" THEN "skipped"
    ELSE IF Upper(ticker) \notin DOMAIN ticker_to_cik THEN "missing_ticker_to_cik"
    ELSE IF ticker_to_cik[Upper(ticker)] = "" THEN "skipped"
    ELSE IF ticker_to_cik[Upper(ticker)] \notin DOMAIN cik_to_shares THEN "missing_cik_to_shares"
    ELSE IF ~IsValidSharesData(cik_to_shares[ticker_to_cik[Upper(ticker)]].shares_outstanding,
                               cik_to_shares[ticker_to_cik[Upper(ticker)]].shares_date,
                               now).valid
    THEN "invalid_shares_data"
    ELSE "successful_mappings"

\* The counters after the loop over the entries, in the order of the file.
RECURSIVE CountOutcomes(_, _, _, _, _)
CountOutcomes(tickers, ticker_to_cik, cik_to_shares, now, counters) ==
    IF tickers = <<>> THEN counters
    ELSE LET outcome == Outcome(Head(tickers), ticker_to_cik, cik_to_shares, now)
         IN  CountOutcomes(Tail(tickers), ticker_to_cik, cik_to_shares, now,
                           IF outcome = "skipped" THEN counters
                           ELSE [counters EXCEPT ![outcome] = @ + 1])

\* run, first step: build_complete_mapping.
CompleteMapperBuild ==
    /\ c_pc = "idle"
    /\ LET chain == ChainCusips(cusip_ticker_map_file, ticker_to_cik_file, sec_shares_file)
           data(c) == ChainSharesData(c, cusip_ticker_map_file, ticker_to_cik_file,
                                      sec_shares_file)
           result  == [c \in chain |->
                          IsValidSharesData(data(c).shares_outstanding,
                                            data(c).shares_date, today)]
       IN  /\ c_validation' = result
           /\ cusip_to_shares' =
                  [c \in {x \in chain : result[x].valid} |->
                      [cusip |-> c,
                       ticker |-> Upper(cusip_ticker_map_file[c]),
                       cik |-> ticker_to_cik_file[Upper(cusip_ticker_map_file[c])],
                       shares_outstanding |-> data(c).shares_outstanding,
                       shares_date |-> data(c).shares_date]]
    /\ c_counters' = CountOutcomes(cusip_ticker_map_file, ticker_to_cik_file, sec_shares_file,
                                   today, NoCounters)
    /\ c_pc' = "built"
    /\ UNCHANGED <<ticker_to_cik_file, sec_shares_file, today, cusip_to_shares_metadata,
                   mapperVars, fsVars, downloaderVars, analyzerVars, laterVars>>

\* run, second step: save_complete_mapping writes cusip_to_shares_complete.json.
CompleteMapperSave ==
    /\ c_pc = "built"
    /\ cusip_to_shares_metadata' =
           [total_cusips |-> Cardinality(DOMAIN cusip_ticker_map_file),
            mapped_cusips |-> Cardinality(DOMAIN cusip_to_shares),
            coverage_percentage |-> CoveragePercentage(Cardinality(DOMAIN cusip_to_shares),
                                                       Cardinality(DOMAIN cusip_ticker_map_file))]
    /\ cusip_to_shares_file' =
           [mtime |-> cusip_to_shares_file.mtime + 1,
            mappings |-> [c \in DOMAIN cusip_to_shares |-> cusip_to_shares[c].shares_outstanding]]
    /\ c_pc' = "saved"
    /\ UNCHANGED <<ticker_to_cik_file, sec_shares_file, today, cusip_to_shares, c_validation,
                   c_counters, analysis_progress_file, enriched_cache_file, total_holdings_file,
                   quarterly_adds_file, a_pc, cwd, a_args, a_phase, a_self, current_holdings,
                   total_holdings_pct, quarterly_adds_pct, a_cache_used, a_nested, institution_filing_periods,
                   mapperVars, fsVars, downloaderVars, laterVars>>

CNext == CompleteMapperBuild \/ CompleteMapperSave

\* ---- inputs of the complete-chain mapper ----
MaxEntries == 5

\* cusip_ticker_map.json: n entries, the first k with a ticker whose chain is
\* complete and valid, the others with one other ticker.
CompleteCusipMaps ==
    UNION {{[i \in 1..n |-> IF i <= k THEN "b" ELSE other] :
               k \in 0..n, other \in {"", "A", "C", "D", "E"}} : n \in 0..MaxEntries}

\* ticker_to_cik_map.json: C has no entry, E an entry without a CIK.
CompleteTickerToCik ==
    [t \in {"A", "B", "D", "E"} |->
        IF t = "A" THEN "k1" ELSE IF t = "B" THEN "k2" ELSE IF t = "D" THEN "k3" ELSE ""]

ShareCounts == {1, 12, 10000, 99999, 100000, 5000000}

SharesDates == {NoDate, Date(2023, 6, 30), Date(2024, 6, 30), Date(2024, 7, 1),
                Date(2024, 8, 1), Date(2025, 12, 31), OtherLayout(2023, 6, 30)}

Nows == {Date(2025, 6, 30), Date(2025, 7, 1), Date(2025, 7, 2), Date(2025, 8, 2)}

\* The shares data: k1 has any share count and date, k2 a valid record, k3 none.
CompleteSecShares ==
    {[k \in {"k1", "k2"} |->
        IF k = "k1" THEN [shares_outstanding |-> n, shares_date |-> d]
        ELSE [shares_outstanding |-> 5000000, shares_date |-> Date(2025, 3, 31)]] :
        n \in ShareCounts, d \in SharesDates}

\* The CUSIP mapper at rest, whatever cusip_ticker_map.json holds.
MNotRunning ==
    /\ manual_mappings_file = <<>>
    /\ num_filing_cusips = 0
    /\ m_pc = "idle"
    /\ cusip_ticker_cache = <<>>
    /\ unmapped_cusips = <<>>
    /\ batch_num = 0
    /\ batch_status = <<>>

InitComplete ==
    /\ cusip_ticker_map_file \in CompleteCusipMaps
    /\ MNotRunning
    /\ FsEmpty
    /\ DIdle
    /\ AIdle
    /\ ticker_to_cik_file = CompleteTickerToCik
    /\ sec_shares_file \in CompleteSecShares
    /\ today \in Nows
    /\ c_pc = "idle"
    /\ cusip_to_shares = <<>>
    /\ c_validation = <<>>
    /\ cusip_to_shares_metadata = NoMetadata
    /\ c_counters = NoCounters
    /\ TIdle
    /\ UIdle
    /\ PIdle
    /\ GIdle
    /\ SIdle

\* C11: is_valid_shares_data answers valid exactly when the share count is no
\* placeholder, is at least 100000, a date is present, the date is at most 365
\* days before today and is not before 2024-07-01.
C11_ValidIffAllChecks ==
    \A c \in DOMAIN c_validation :
        LET data == ChainSharesData(c, cusip_ticker_map_file, ticker_to_cik_file,
                                    sec_shares_file)
        IN  c_validation[c].valid <=>
                /\ data.shares_outstanding \notin {1, 10, 12, 100, 1000, 10000}
                /\ data.shares_outstanding >= 100000
                /\ data.shares_date.kind # "none"
                /\ DayNumber(today) - DayNumber(data.shares_date) <= 365
                /\ ~DateLess(data.shares_date, Date(2024, 7, 1))

\* C12: in the written file, mapped_cusips is the number of CUSIPs of the mapping
\* body, total_cusips the number of entries of cusip_ticker_map.json, and
\* coverage_percentage is mapped_cusips / total_cusips * 100, or 0 with no entry.
C12_CoverageMetadata ==
    c_pc = "saved" =>
        /\ cusip_to_shares_metadata.mapped_cusips
               = Cardinality(DOMAIN cusip_to_shares_file.mappings)
        /\ cusip_to_shares_metadata.total_cusips = Cardinality(DOMAIN cusip_ticker_map_file)
        /\ IF Cardinality(DOMAIN cusip_ticker_map_file) = 0
           THEN cusip_to_shares_metadata.coverage_percentage.num = 0
           ELSE cusip_to_shares_metadata.coverage_percentage.num
                    * Cardinality(DOMAIN cusip_ticker_map_file)
                = Cardinality(DOMAIN cusip_to_shares_file.mappings) * 100
                    * cusip_to_shares_metadata.coverage_percentage.den

\* Four of five entries resolve to valid shares data: mapped_cusips 4, coverage 80.
C12_Witness ==
    /\ c_pc = "saved"
    /\ Cardinality(DOMAIN cusip_ticker_map_file) = 5
    /\ Cardinality(DOMAIN cusip_to_shares_file.mappings) = 4
    /\ cusip_to_shares_metadata.mapped_cusips = 4
    /\ cusip_to_shares_metadata.coverage_percentage.num
           = 80 * cusip_to_shares_metadata.coverage_percentage.den

(***************************************************************************)
(* Dashboard                                                               *)
(***************************************************************************)
SCALE_FACTOR == 1000000000
DAYS_PER_QUARTER == 92

\* A display value: a stored value divided by SCALE_FACTOR, kept as a fraction.
Scaled(value) == [num |-> value, den |-> SCALE_FACTOR]

\* The sum of f over the keys in S.
RECURSIVE SumOver(_, _)
SumOver(f, S) ==
    IF S = {} THEN 0
    ELSE LET n == CHOOSE n \in S : TRUE IN f[n] + SumOver(f, S \ {n})

Institutions == {Vanguard, Citadel, StateStreet}

\* The order in which the analyzer met the institutions: the order of the keys
\* of every positions dict and of every holders list.
InstitutionOrder == <<Vanguard, Citadel, StateStreet>>

HoldersIn(S) == SelectSeq(InstitutionOrder, LAMBDA n : n \in S)

INVESTOR_TYPE_MAPPING ==
    ("Quant Fund" :> "Quantitative") @@ ("Quant Value" :> "Quantitative") @@
    ("Hedge Fund" :> "Hedge Funds") @@ ("Multi-Strategy" :> "Hedge Funds") @@
    ("Tech Hedge Fund" :> "Hedge Funds") @@ ("Event-Driven" :> "Hedge Funds") @@
    ("Macro Fund" :> "Hedge Funds") @@ ("Tiger Cub" :> "Hedge Funds") @@
    ("Value Fund" :> "Value & Growth") @@ ("Growth Fund" :> "Value & Growth") @@
    ("Activist Investor" :> "Value & Growth") @@
    ("Activist Hedge Fund" :> "Value & Growth") @@
    ("Conglomerate" :> "Value & Growth") @@
    ("Private Equity" :> "Alternative Assets") @@
    ("Private Credit" :> "Alternative Assets") @@
    ("Distressed Debt" :> "Alternative Assets") @@
    ("Distressed Fund" :> "Alternative Assets") @@
    ("Credit Fund" :> "Alternative Assets") @@
    ("Bank" :> "Banks") @@ ("Investment Bank" :> "Banks") @@
    ("Pension Fund" :> "Other") @@ ("REIT Fund" :> "Other") @@
    ("ESG Fund" :> "Traditional Active") @@ ("Small Cap Fund" :> "Traditional Active") @@
    ("Asset Manager" :> "Asset Manager")

passive_firms == << <<"BlackRock">>, <<"Vanguard">>, <<"State", "Street">>, <<"Geode">>,
                    <<"Dimensional">>, <<"Northern", "Trust">>, <<"BNY", "Mellon">> >>

\* "p in firm_name": p occurs in the name as a run of consecutive words.
Contains(p, firm_name) ==
    \E i \in 1..(Len(firm_name) - Len(p) + 1) : SubSeq(firm_name, i, i + Len(p) - 1) = p

\* The lookup table alone, without the treatment of asset managers.
MappedCategory(firm_name, original_type) ==
    IF original_type \in DOMAIN INVESTOR_TYPE_MAPPING
    THEN INVESTOR_TYPE_MAPPING[original_type] ELSE "Other"

\* get_methodology_category.
GetMethodologyCategory(firm_name, original_type) ==
    IF original_type = "Asset Manager"
    THEN IF \E k \in DOMAIN passive_firms : Contains(passive_firms[k], firm_name)
         THEN "Passive/Index" ELSE "Traditional Active"
    ELSE LET mapped == IF original_type \in DOMAIN INVESTOR_TYPE_MAPPING
                       THEN INVESTOR_TYPE_MAPPING[original_type] ELSE "Other"
         IN  IF mapped = "Asset Manager" THEN "Traditional Active" ELSE mapped

\* load_investor_metadata: no file gives {}; else one entry per firm name, a
\* missing "type" read as Unknown.
LoadInvestorMetadata(file) ==
    IF ~file.exists THEN <<>>
    ELSE LET details == file.cik_details
             names   == {details[c].name : c \in DOMAIN details}
         IN  [n \in names |->
                 LET c == CHOOSE c \in DOMAIN details : details[c].name = n
                 IN  [type |-> GetMethodologyCategory(n, details[c].type),
                      original_type |-> details[c].type]]

\* investor_metadata.get(h, {}).get('type', 'Unknown')
TypeOf(metadata, h) == IF h \in DOMAIN metadata THEN metadata[h].type ELSE "Unknown"

\* The test of the loop over filing_periods, with ">=" in place of ">".
IsStaleAtLimit(period, qy, max_age_days) ==
    /\ \/ period.year < qy.year
       \/ period.year = qy.year /\ period.quarter < qy.quarter
    /\ ((qy.year - period.year) * 4 + (qy.quarter - period.quarter)) * DAYS_PER_QUARTER
           >= max_age_days

\* The test of the loop over filing_periods: earlier than the selected quarter
\* and quarters_old * DAYS_PER_QUARTER > max_age_days.
IsStale(period, qy, max_age_days) ==
    /\ \/ period.year < qy.year
       \/ period.year = qy.year /\ period.quarter < qy.quarter
    /\ ((qy.year - period.year) * 4 + (qy.quarter - period.quarter)) * DAYS_PER_QUARTER
           > max_age_days

StaleInstitutions(filing_periods, qy, max_age_days) ==
    {n \in DOMAIN filing_periods : IsStale(filing_periods[n], qy, max_age_days)}

\* One security that keeps a position: the positions without the stale
\* institutions and a new field holder_count; every other field as loaded.
WithoutStale(sec, stale) ==
    [holder_count |-> Cardinality(DOMAIN sec.positions \ stale)] @@
    [sec EXCEPT !.positions = [n \in DOMAIN sec.positions \ stale |-> sec.positions[n]]]

\* filtered_securities: a security with positions is kept when a position is
\* left, a security without positions is kept as it is.
FilteredSecurities(securities, stale) ==
    LET kept == SelectSeq(securities,
                          LAMBDA sec : \/ DOMAIN sec.positions = {}
                                       \/ DOMAIN sec.positions \ stale # {})
    IN  [i \in DOMAIN kept |->
            IF DOMAIN kept[i].positions = {} THEN kept[i] ELSE WithoutStale(kept[i], stale)]

\* The counts written back to metadata.institution_breakdown.
FilteredBreakdown(filing_periods, qy, stale) ==
    [filtered_total |-> Cardinality(DOMAIN filing_periods) - Cardinality(stale),
     filtered_current_quarter |->
         Cardinality({n \in DOMAIN filing_periods : filing_periods[n] = qy /\ n \notin stale}),
     excluded_stale |-> Cardinality(stale)]

\* pd.DataFrame(filtered_securities) with value_usd divided by SCALE_FACTOR.
ToDataFrame(securities) ==
    [i \in DOMAIN securities |-> [securities[i] EXCEPT !.value_usd = Scaled(@)]]

\* calculate_institution_portfolios: per institution the sum of its positions'
\* values, each divided by SCALE_FACTOR.
InstitutionTotals(d) ==
    LET names == UNION {DOMAIN d[i].positions : i \in DOMAIN d}
    IN  [n \in names |->
            Scaled(SumOver([i \in DOMAIN d |-> IF n \in DOMAIN d[i].positions
                                               THEN d[i].positions[n].value ELSE 0],
                           DOMAIN d))]

\* get_position_value(row, institution), as a display value.
GetPositionValue(row, institution) ==
    IF institution \in DOMAIN row.positions
    THEN Scaled(row.positions[institution].value) ELSE Scaled(0)

\* calculate_portfolio_percentage: position / total * 100, 0 for a zero total.
CalculatePortfolioPercentage(position_value, total_portfolio) ==
    IF total_portfolio.num > 0
    THEN [num |-> position_value.num * 100, den |-> total_portfolio.num]
    ELSE [num |-> 0, den |-> 1]

\* add_portfolio_percentages: for an institution that has a total, the column
\* portfolio_pct and only the rows where it is positive.
AddPortfolioPercentages(d, selected_institution, totals) ==
    IF selected_institution \in DOMAIN totals
    THEN LET with == [i \in DOMAIN d |->
                         [portfolio_pct |->
                              CalculatePortfolioPercentage(
                                  GetPositionValue(d[i], selected_institution),
                                  totals[selected_institution])] @@ d[i]]
         IN  SelectSeq(with, LAMBDA r : r.portfolio_pct.num > 0)
    ELSE d

\* The recalculated row of the investor type filter: value, shares, holder count
\* and holder list over the positions of institutions of the selected types, the
\* ownership percentage from the new share count.
TypeSpecificRow(row, types, metadata) ==
    LET sel == {n \in DOMAIN row.positions : TypeOf(metadata, n) \in types}
        shares == SumOver([n \in sel |-> row.positions[n].shares], sel)
    IN  [original_value_usd |-> row.value_usd,
         original_num_holders |-> row.num_holders] @@
        [row EXCEPT !.value_usd = Scaled(SumOver([n \in sel |-> row.positions[n].value], sel)),
                    !.shares_held = shares,
                    !.num_holders = Cardinality(sel),
                    !.holders = HoldersIn(sel),
                    !.pct_of_shares_outstanding =
                        [num |-> shares * 100, den |-> row.shares_outstanding]]

\* The investor type filter: the rows with a holder of a selected type,
\* recalculated, without the rows whose new value is not positive.
InvestorTypeFilter(d, types, metadata) ==
    LET kept == SelectSeq(d, LAMBDA r : \E k \in DOMAIN r.holders :
                                            TypeOf(metadata, r.holders[k]) \in types)
        recalculated == [i \in DOMAIN kept |-> TypeSpecificRow(kept[i], types, metadata)]
    IN  SelectSeq(recalculated, LAMBDA r : r.value_usd.num > 0)

\* filter_dataframe, its steps in the order of the code.
FilterDataframe(d, f, metadata, totals) ==
    LET single == Len(f.selected_investors) = 1
        single_institution == IF single THEN f.selected_investors[1] ELSE <<>>
        searched == IF f.search # ""
                    THEN SelectSeq(d, LAMBDA r : r.ticker = Upper(f.search)) ELSE d
        with_pct == IF single /\ DOMAIN totals # {}
                    THEN AddPortfolioPercentages(searched, single_institution, totals)
                    ELSE searched
        held == IF single
                THEN SelectSeq([i \in DOMAIN with_pct |->
                                   [position_value |->
                                        GetPositionValue(with_pct[i], single_institution)]
                                   @@ with_pct[i]],
                               LAMBDA r : r.position_value.num > 0)
                ELSE with_pct
        in_range == IF ~single
                    THEN SelectSeq(held, LAMBDA r : /\ r.num_holders >= f.holders_range[1]
                                                    /\ r.num_holders <= f.holders_range[2])
                    ELSE held
        by_investor == IF f.selected_investors # <<>> /\ ~single
                       THEN SelectSeq(in_range,
                                LAMBDA r : \E k \in DOMAIN f.selected_investors :
                                    \E h \in DOMAIN r.holders :
                                        r.holders[h] = f.selected_investors[k])
                       ELSE in_range
    IN  IF f.investor_types # {} /\ DOMAIN metadata # {} /\ ~single
        THEN InvestorTypeFilter(by_investor, f.investor_types, metadata)
        ELSE by_investor

\* The quarters of the selector: the folders under output/.
AvailableQuarters == {QY(2, 2025), QY(3, 2025)}

\* The filters the sidebar can produce in the model.
Filters ==
    [selected_investors : {<<>>, <<Vanguard>>, <<Vanguard, Citadel>>},
     investor_types : {{}, {"Passive/Index"}, {"Hedge Funds"}, {"Passive/Index", "Hedge Funds"}},
     search : {"", "b"},
     holders_range : {<<1, 3>>, <<2, 3>>}]

\* main, up to the sidebar: the selected quarter's holdings are loaded without
\* the stale institutions, the investor metadata is loaded and the portfolio
\* totals are computed from the loaded rows.
DashboardLoad ==
    /\ u_pc = "start"
    /\ holdings_data.exists
    /\ \E qy \in AvailableQuarters :
         LET periods == holdings_data.filing_periods
             stale   == StaleInstitutions(periods, qy, max_data_age_days)
         IN  /\ selected_quarter' = qy
             /\ stale_institutions' = stale
             /\ df' = ToDataFrame(FilteredSecurities(holdings_data.securities, stale))
             /\ institution_breakdown' = FilteredBreakdown(periods, qy, stale)
    /\ investor_metadata' = LoadInvestorMetadata(cik_metadata_file)
    /\ institution_totals' = InstitutionTotals(df')
    /\ u_pc' = "loaded"
    /\ UNCHANGED <<max_data_age_days, holdings_data, filters, filtered_df, targetVars,
                   pathVars, configVars, completeVars, stageVars, mapperVars, fsVars, downloaderVars, analyzerVars>>

\* The rerun with the filters of the sidebar; a later rerun starts from the same
\* cached df and is no different.
DashboardFilter ==
    /\ u_pc = "loaded"
    /\ \E f \in Filters :
         /\ filters' = f
         /\ filtered_df' = FilterDataframe(df, f, investor_metadata, institution_totals)
    /\ u_pc' = "filtered"
    /\ UNCHANGED <<max_data_age_days, holdings_data, selected_quarter, stale_institutions, df,
                   institution_breakdown, investor_metadata, institution_totals, targetVars,
                   pathVars, configVars, completeVars, stageVars, mapperVars, fsVars, downloaderVars, analyzerVars>>

UNext == DashboardLoad \/ DashboardFilter

\* The position of an institution in a security of the loaded file.
PositionOf(name, cusip) ==
    IF cusip = 1
    THEN IF name = Vanguard THEN [shares |-> 300, value |-> 3000000]
         ELSE IF name = Citadel THEN [shares |-> 200, value |-> 2000000]
         ELSE [shares |-> 100, value |-> 1000000]
    ELSE IF name = Vanguard THEN [shares |-> 50, value |-> 500000]
         ELSE IF name = Citadel THEN [shares |-> 10, value |-> 0]
         ELSE [shares |-> 40, value |-> 400000]

\* One security as generate_json_output writes it for a set of holders, with
\* the ticker the enrichment gave it.
DashboardSecurity(cusip, ticker, names) ==
    LET positions == [n \in names |-> PositionOf(n, cusip)]
        shares == SumOver([n \in names |-> positions[n].shares], names)
        json == JsonSecurity([cusip |-> cusip, shares |-> shares, shares_outstanding |-> 1000,
                              value |-> SumOver([n \in names |-> positions[n].value], names),
                              num_holders |-> Cardinality(names), holders |-> HoldersIn(names),
                              positions |-> positions])
    IN  [ticker |-> ticker] @@
        [json EXCEPT !.pct_of_shares_outstanding = [num |-> @, den |-> 10000]]

\* The securities lists of the model: one or two securities, each with its holders.
DashboardSecurities ==
    {<<DashboardSecurity(1, "A", a), DashboardSecurity(2, "B", b)>> :
         a \in SUBSET Institutions \ {{}}, b \in {{Citadel}, {Vanguard, Citadel}}}

\* The filing periods a file can record for an institution.
FilingPeriods == {QY(1, 2024), QY(3, 2024), QY(2, 2025), QY(3, 2025)}

MaxDataAges == {365, 92}

DashboardCikMetadata(v, c, s) ==
    [exists |-> TRUE,
     cik_details |-> ("c1" :> [name |-> Vanguard, type |-> v]) @@
                     ("c2" :> [name |-> Citadel, type |-> c]) @@
                     ("c3" :> [name |-> StateStreet, type |-> s])]

\* Before the dashboard loads a quarter: any file with any filing periods.
InitLoad ==
    /\ MIdle
    /\ FsEmpty
    /\ DIdle
    /\ AIdle
    /\ CIdle
    /\ PIdle
    /\ GIdle
    /\ SIdle
    /\ institution_filter = NoInstitutionFilter
    /\ target_firms_file = NoFile
    /\ cik_metadata_file = DashboardCikMetadata("Asset Manager", "Hedge Fund", "Bank")
    /\ max_data_age_days \in MaxDataAges
    /\ holdings_data \in
           {[exists |-> TRUE, securities |-> secs,
             filing_periods |-> (Vanguard :> v) @@ (Citadel :> c) @@ (StateStreet :> s)] :
                secs \in DashboardSecurities, v \in FilingPeriods, c \in FilingPeriods,
                s \in {QY(2, 2025), QY(3, 2025)}}
    /\ u_pc = "start"
    /\ selected_quarter = [quarter |-> 0, year |-> 0]
    /\ stale_institutions = {}
    /\ df = <<>>
    /\ institution_breakdown = <<>>
    /\ investor_metadata = <<>>
    /\ institution_totals = <<>>
    /\ filters = NoFilters
    /\ filtered_df = <<>>

\* C13: load_holdings_data excludes an institution exactly when its filing period
\* is earlier than the selected quarter and the quarters between them times 92 are
\* more than max_data_age_days; with 365, six quarters old is excluded and one
\* quarter old is kept. An excluded institution has no position in a loaded row.
C13_StaleIff ==
    u_pc \in {"loaded", "filtered"} =>
        LET periods == holdings_data.filing_periods
            q == selected_quarter
            QuartersOld(n) == (q.year - periods[n].year) * 4 + (q.quarter - periods[n].quarter)
            Earlier(n) == \/ periods[n].year < q.year
                          \/ periods[n].year = q.year /\ periods[n].quarter < q.quarter
        IN  /\ \A n \in DOMAIN periods :
                   /\ n \in stale_institutions
                          <=> Earlier(n) /\ QuartersOld(n) * 92 > max_data_age_days
                   /\ max_data_age_days = 365 /\ QuartersOld(n) = 6 => n \in stale_institutions
                   /\ max_data_age_days = 365 /\ QuartersOld(n) = 1 => n \notin stale_institutions
                   /\ \A i \in DOMAIN df :
                          n \in DOMAIN df[i].positions <=>
                              /\ n \notin stale_institutions
                              /\ \E j \in DOMAIN holdings_data.securities :
                                     /\ holdings_data.securities[j].cusip = df[i].cusip
                                     /\ n \in DOMAIN holdings_data.securities[j].positions

\* Viewed from Q3 2025 with 365 days: the Q1 2024 filer is excluded and the
\* Q2 2025 filer is kept, both holding a loaded security in the file.
C13_Witness ==
    /\ u_pc = "loaded"
    /\ max_data_age_days = 365
    /\ selected_quarter = QY(3, 2025)
    /\ holdings_data.filing_periods[Vanguard] = QY(1, 2024)
    /\ holdings_data.filing_periods[StateStreet] = QY(2, 2025)
    /\ Vanguard \in stale_institutions
    /\ StateStreet \notin stale_institutions
    /\ \E i \in DOMAIN df : DOMAIN df[i].positions = {Citadel, StateStreet}
    /\ DOMAIN holdings_data.securities[1].positions = Institutions

\* C14: after the staleness filtering every loaded security lists as holders
\* exactly the institutions of its filtered positions, none of them stale, its
\* num_holders is their number, and a security whose holders are all stale is
\* not loaded.
C14_HoldersRecomputed ==
    u_pc \in {"loaded", "filtered"} =>
        /\ \A i \in DOMAIN df :
               /\ SeqToSet(df[i].holders) = DOMAIN df[i].positions
               /\ SeqToSet(df[i].holders) \cap stale_institutions = {}
               /\ df[i].num_holders = Cardinality(DOMAIN df[i].positions)
        /\ \A j \in DOMAIN holdings_data.securities :
               DOMAIN holdings_data.securities[j].positions \subseteq stale_institutions
                   => \A i \in DOMAIN df : df[i].cusip # holdings_data.securities[j].cusip

\* The raw types of the roster: the listed ones, one that is not listed, and
\* the Unknown that a missing type is read as.
RawTypes == DOMAIN INVESTOR_TYPE_MAPPING \cup {"Family Office", "Unknown"}

\* cik_metadata.json files: every raw type for the first institution, and a
\* file that does not know the second institution.
DashboardCikMetadatas ==
    LET full == {DashboardCikMetadata(v, c, s) :
                     v \in RawTypes, c \in {"Asset Manager", "Hedge Fund"},
                     s \in {"Asset Manager", "Bank"}}
    IN  full \cup {[exists |-> TRUE,
                    cik_details |-> [k \in {"c1", "c3"} |-> m.cik_details[k]]] :
                       m \in {DashboardCikMetadata(v, "Hedge Fund", "Asset Manager") :
                                  v \in {"Asset Manager", "Hedge Fund"}}}

\* Before the dashboard loads a quarter in which no institution is stale: any
\* investor types, any holders.
InitFilter ==
    /\ MIdle
    /\ FsEmpty
    /\ DIdle
    /\ AIdle
    /\ CIdle
    /\ PIdle
    /\ GIdle
    /\ SIdle
    /\ institution_filter = NoInstitutionFilter
    /\ target_firms_file = NoFile
    /\ cik_metadata_file \in DashboardCikMetadatas
    /\ max_data_age_days = 365
    /\ holdings_data \in
           {[exists |-> TRUE, securities |-> secs,
             filing_periods |-> [n \in Institutions |-> QY(3, 2025)]] :
                secs \in DashboardSecurities}
    /\ u_pc = "start"
    /\ selected_quarter = [quarter |-> 0, year |-> 0]
    /\ stale_institutions = {}
    /\ df = <<>>
    /\ institution_breakdown = <<>>
    /\ investor_metadata = <<>>
    /\ institution_totals = <<>>
    /\ filters = NoFilters
    /\ filtered_df = <<>>

\* C15: with investor types selected, every row filter_dataframe returns has a
\* holder of a selected type, and its value, shares, holder count, holder list
\* and ownership percentage are those of its positions of institutions of the
\* selected types, the value being positive; whatever the other filters are.
C15_TypeFilterRestricts ==
    u_pc = "filtered" /\ filters.investor_types # {} =>
        \A i \in DOMAIN filtered_df :
            LET r == filtered_df[i]
                sel == {n \in DOMAIN r.positions :
                            TypeOf(investor_metadata, n) \in filters.investor_types}
                shares == SumOver([n \in sel |-> r.positions[n].shares], sel)
                value == SumOver([n \in sel |-> r.positions[n].value], sel)
            IN  /\ sel # {}
                /\ r.value_usd.num = value
                /\ value > 0
                /\ r.shares_held = shares
                /\ r.num_holders = Cardinality(sel)
                /\ SeqToSet(r.holders) = sel
                /\ r.pct_of_shares_outstanding.num * r.shares_outstanding
                       = shares * 100 * r.pct_of_shares_outstanding.den

\* C16: get_methodology_category gives Passive/Index to an asset manager whose
\* name contains one of the seven passive firm names, Traditional Active to any
\* other asset manager, the table's category to any other listed type whatever
\* the name, Other to a type that is not listed, and never Asset Manager.
C16_MethodologyCategory ==
    u_pc \in {"loaded", "filtered"} =>
        \A n \in DOMAIN investor_metadata :
            LET raw == investor_metadata[n].original_type
                category == investor_metadata[n].type
                passive == \E k \in DOMAIN passive_firms : Contains(passive_firms[k], n)
            IN  /\ raw = "Asset Manager" /\ passive => category = "Passive/Index"
                /\ raw = "Asset Manager" /\ ~passive => category = "Traditional Active"
                /\ raw # "Asset Manager" /\ raw \in DOMAIN INVESTOR_TYPE_MAPPING
                       => category = INVESTOR_TYPE_MAPPING[raw]
                /\ raw = "Hedge Fund" => category = "Hedge Funds"
                /\ raw \notin DOMAIN INVESTOR_TYPE_MAPPING => category = "Other"
                /\ category # "Asset Manager"

\* Vanguard as a hedge fund keeps the table's category, State Street as an asset
\* manager is passive, Citadel as an asset manager is traditional active.
C16_Witness ==
    /\ u_pc = "loaded"
    /\ investor_metadata[Vanguard] = [type |-> "Hedge Funds", original_type |-> "Hedge Fund"]
    /\ investor_metadata[StateStreet]
           = [type |-> "Passive/Index", original_type |-> "Asset Manager"]
    /\ Citadel \in DOMAIN investor_metadata
    /\ investor_metadata[Citadel]
           = [type |-> "Traditional Active", original_type |-> "Asset Manager"]

(***************************************************************************)
(* Latest completed quarter                                                *)
(***************************************************************************)
\* The day after a date.
NextDay(d) ==
    IF d.day < DaysInMonth(d.year, d.month) THEN Date(d.year, d.month, d.day + 1)
    ELSE IF d.month < 12 THEN Date(d.year, d.month + 1, 1)
    ELSE Date(d.year + 1, 1, 1)

\* The quarters list of get_latest_completed_quarter for a day: three quarters
\* of the current year, the fourth quarter of the year before and, in January
\* and February, the fourth quarter of two years before.
DeadlineTable(now) ==
    LET cy == now.year
        base == <<[quarter |-> 1, year |-> cy, filing_deadline |-> Date(cy, 5, 15)],
                  [quarter |-> 2, year |-> cy, filing_deadline |-> Date(cy, 8, 14)],
                  [quarter |-> 3, year |-> cy, filing_deadline |-> Date(cy, 11, 14)],
                  [quarter |-> 4, year |-> cy - 1, filing_deadline |-> Date(cy, 2, 14)]>>
    IN  IF now.month <= 2
        THEN Append(base, [quarter |-> 4, year |-> cy - 2,
                           filing_deadline |-> Date(cy - 1, 2, 14)])
        ELSE base

\* get_latest_completed_quarter: the entry with the latest deadline among those
\* whose deadline is not after now, else the fourth quarter of the year before.
GetLatestCompletedQuarter(now) ==
    LET quarters == DeadlineTable(now)
        passed == {i \in DOMAIN quarters : ~DateLess(now, quarters[i].filing_deadline)}
    IN  IF passed = {} THEN QY(4, now.year - 1)
        ELSE LET i == CHOOSE i \in passed :
                          \A j \in passed :
                              ~DateLess(quarters[i].filing_deadline, quarters[j].filing_deadline)
             IN  QY(quarters[i].quarter, quarters[i].year)

\* The days of the model: from the first to the last, two new years included.
FirstDay == Date(2024, 1, 1)
LastDay == Date(2025, 12, 31)

\* A call of get_latest_completed_quarter on the day of today.
LatestCompletedQuarterCall ==
    /\ ~called_today
    /\ earlier_quarter' = latest_quarter
    /\ latest_quarter' = GetLatestCompletedQuarter(today)
    /\ called_today' = TRUE
    /\ UNCHANGED <<ticker_to_cik_file, sec_shares_file, today, c_pc, cusip_to_shares,
                   c_validation, cusip_to_shares_metadata, c_counters, targetVars, dashboardVars,
                   configVars, stageVars, mapperVars, fsVars, downloaderVars, analyzerVars>>

\* Midnight: datetime.now() is a day later.
DayPasses ==
    /\ DateLess(today, LastDay)
    /\ today' = NextDay(today)
    /\ called_today' = FALSE
    /\ UNCHANGED <<ticker_to_cik_file, sec_shares_file, c_pc, cusip_to_shares, c_validation,
                   cusip_to_shares_metadata, c_counters, latest_quarter, earlier_quarter, targetVars,
                   dashboardVars, configVars, stageVars, mapperVars, fsVars, downloaderVars, analyzerVars>>

PNext == LatestCompletedQuarterCall \/ DayPasses

InitCalendar ==
    /\ MIdle
    /\ FsEmpty
    /\ DIdle
    /\ AIdle
    /\ TIdle
    /\ UIdle
    /\ PIdle
    /\ GIdle
    /\ SIdle
    /\ ticker_to_cik_file = <<>>
    /\ sec_shares_file = <<>>
    /\ today = FirstDay
    /\ c_pc = "idle"
    /\ cusip_to_shares = <<>>
    /\ c_validation = <<>>
    /\ cusip_to_shares_metadata = NoMetadata
    /\ c_counters = NoCounters

\* The filing deadline of a quarter: May 15, Aug 14 and Nov 14 of its year,
\* Feb 14 of the year after for the fourth quarter.
FilingDeadline(qy) ==
    IF qy.quarter = 1 THEN Date(qy.year, 5, 15)
    ELSE IF qy.quarter = 2 THEN Date(qy.year, 8, 14)
    ELSE IF qy.quarter = 3 THEN Date(qy.year, 11, 14)
    ELSE Date(qy.year + 1, 2, 14)

QuarterBefore(a, b) == a.year < b.year \/ (a.year = b.year /\ a.quarter < b.quarter)

\* C20: on every day the function returns, among the quarters of the current and
\* the prior year, the one with the latest filing deadline on or before the day,
\* the prior year's fourth quarter when none qualifies; and from one call to the
\* next, as days pass, the returned quarter does not move backward.
C20_LatestDeadlinePassed ==
    called_today =>
        LET candidates == {QY(q, y) : q \in 1..4, y \in {today.year - 1, today.year}}
            passed == {c \in candidates : ~DateLess(today, FilingDeadline(c))}
        IN  /\ IF passed = {} THEN latest_quarter = QY(4, today.year - 1)
               ELSE /\ latest_quarter \in passed
                    /\ \A c \in passed :
                           ~DateLess(FilingDeadline(latest_quarter), FilingDeadline(c))
            /\ earlier_quarter # NoQuarter => ~QuarterBefore(latest_quarter, earlier_quarter)

(***************************************************************************)
(* Configuration of the stages that talk to SEC                            *)
(***************************************************************************)
\* load_config_with_env: the file is opened (it must exist), SEC_USER_EMAIL
\* replaces user_agent.email when set, and a missing or empty email raises.
LoadConfigWithEnv(file, env) ==
    IF ~file.exists THEN [raised |-> TRUE, email |-> ""]
    ELSE LET email == IF env.set THEN env.value
                      ELSE IF file.has_user_agent THEN file.email ELSE ""
         IN  [raised |-> email = "", email |-> email]

\* load_config of the ticker downloader and of the shares extractor: defaults
\* when there is no file, {} when load_config_with_env raises.
LoadConfigOrDefault(file, env) ==
    IF ~file.exists THEN [has_email |-> TRUE, email |-> "analysis@example.com"]
    ELSE LET loaded == LoadConfigWithEnv(file, env)
         IN  IF loaded.raised THEN [has_email |-> FALSE, email |-> ""]
             ELSE [has_email |-> TRUE, email |-> loaded.email]

\* user_agent.get('email', 'analysis@example.com') of the User-Agent header.
UserAgentEmail(config) == IF config.has_email THEN config.email ELSE "analysis@example.com"

\* The --email argument of the filing downloader: its default, or what was given.
EmailArguments == {"research@example.com", "me@fund.example"}

\* The constructor of a stage. The filing downloader calls load_config_with_env
\* itself and ends on its exception; the other two go on with what their
\* load_config returned.
StageStart ==
    \E st \in Stages :
        /\ stage_pc[st] = "idle"
        /\ IF st = "00"
           THEN \E email \in EmailArguments :
                    IF LoadConfigWithEnv(analysis_config_file, sec_user_email).raised
                    THEN /\ stage_pc' = [stage_pc EXCEPT ![st] = "failed"]
                         /\ UNCHANGED stage_email
                    ELSE /\ stage_pc' = [stage_pc EXCEPT ![st] = "configured"]
                         /\ stage_email' = [stage_email EXCEPT ![st] = email]
           ELSE /\ stage_pc' = [stage_pc EXCEPT ![st] = "configured"]
                /\ stage_email' = [stage_email EXCEPT ![st] =
                       UserAgentEmail(LoadConfigOrDefault(analysis_config_file,
                                                          sec_user_email))]
        /\ UNCHANGED <<sec_user_email, analysis_config_file, http_requests, targetVars,
                       dashboardVars, pathVars, completeVars, stageVars, mapperVars, fsVars,
                       downloaderVars, analyzerVars>>

\* The download of a stage: the ticker downloader and the shares extractor send
\* nothing when their file is already there; otherwise the request carries the
\* stage's contact email.
StageDownload ==
    \E st \in Stages, already_there \in BOOLEAN :
        /\ stage_pc[st] = "configured"
        /\ IF already_there /\ st # "00"
           THEN /\ stage_pc' = [stage_pc EXCEPT ![st] = "done"]
                /\ UNCHANGED http_requests
           ELSE /\ stage_pc' = [stage_pc EXCEPT ![st] = "requested"]
                /\ http_requests' = http_requests \cup
                                        {[stage |-> st, email |-> stage_email[st]]}
        /\ UNCHANGED <<sec_user_email, analysis_config_file, stage_email, targetVars,
                       dashboardVars, pathVars, completeVars, stageVars, mapperVars, fsVars,
                       downloaderVars, analyzerVars>>

GNext == StageStart \/ StageDownload

\* The configuration files and environments of the model.
ConfigFiles ==
    {NoFile} \cup [exists : {TRUE}, has_user_agent : BOOLEAN,
                   email : {"", "ir@fund.example"}]

Environments == {[set |-> FALSE, value |-> ""], [set |-> TRUE, value |-> ""],
                 [set |-> TRUE, value |-> "ops@fund.example"]}

InitConfig ==
    /\ MIdle
    /\ FsEmpty
    /\ DIdle
    /\ AIdle
    /\ CIdle
    /\ TIdle
    /\ UIdle
    /\ PIdle
    /\ SIdle
    /\ sec_user_email \in Environments
    /\ analysis_config_file \in ConfigFiles
    /\ stage_pc = [st \in Stages |-> "idle"]
    /\ stage_email = [st \in Stages |-> ""]
    /\ http_requests = {}

\* C19: with no contact email in SEC_USER_EMAIL and none in user_agent.email of
\* the configuration file, no stage gets past loading its configuration and no
\* request is sent to SEC.
C19_NoSubstituteIdentity ==
    (/\ ~sec_user_email.set \/ sec_user_email.value = ""
     /\ \/ ~analysis_config_file.exists
        \/ ~analysis_config_file.has_user_agent
        \/ analysis_config_file.email = "")
    => /\ \A st \in Stages : stage_pc[st] \in {"idle", "failed"}
       /\ http_requests = {}

(***************************************************************************)
(* The roster and the institution lists                                    *)
(***************************************************************************)
\* The rosters an operator can leave: both institutions in either order, one of
\* them, none, and one with a row without a CIK and a row without an Institution.
EditedRosters ==
    {<<RowOf("c1"), RowOf("c2")>>, <<RowOf("c2"), RowOf("c1")>>, <<RowOf("c1")>>,
     <<RowOf("c2")>>, <<>>,
     <<Row(StateStreet, "", "Bank"), RowOf("c1"), Row(<<>>, "c2", "Hedge Fund")>>,
     <<Row(<<>>, "c1", "Asset Manager"), RowOf("c2"), Row(StateStreet, "", "Bank"),
       RowOf("c1")>>}

\* The operator edits config/clean_institutions.csv between two runs of the
\* downloader; no run has read the new roster yet.
EditRoster ==
    /\ d_pc \in {"idle", "done"}
    /\ \E csv \in EditedRosters \ {clean_institutions_csv} : clean_institutions_csv' = csv
    /\ d_pc' = "idle"
    /\ UNCHANGED <<download_progress_file, d_force, cik_list, d_idx, downloaded_ciks,
                   successful_downloads, failed_downloads, skipped_downloads,
                   filing_metadata, d_start_progress, d_fetched, d_quarters, d_quarter,
                   d_before, fsVars, mapperVars,
                   analyzerVars, restVars>>

TNext == DNext \/ EditRoster

\* Before the first run: a roster, no institution list, nothing downloaded.
InitTargets ==
    /\ MIdle
    /\ FsEmpty
    /\ AIdle
    /\ RestIdle
    /\ clean_institutions_csv \in {<<RowOf("c1"), RowOf("c2")>>, <<RowOf("c2")>>}
    /\ download_progress_file = {}
    /\ d_pc = "idle"
    /\ d_force = FALSE
    /\ cik_list = <<>>
    /\ d_idx = 1
    /\ downloaded_ciks = {}
    /\ successful_downloads = <<>>
    /\ failed_downloads = <<>>
    /\ skipped_downloads = <<>>
    /\ filing_metadata = <<>>
    /\ d_start_progress = {}
    /\ d_fetched = {}
    /\ d_quarters = {QY(1, 2025)}
    /\ d_quarter = NoQuarter
    /\ d_before = NoneRecorded

\* C17: once a run of the downloader has initialised the institution lists,
\* target_firms.json lists exactly the rows of the current roster that have a
\* name and a CIK, after the top-N or range selection, in their order, and
\* cik_metadata.json has an entry for exactly their CIKs, with the name and type
\* of the roster: nothing of the files' earlier contents is left.
C17_ListsReplaced ==
    d_pc \in {"loop", "done"} =>
        LET csv == clean_institutions_csv
            valid == SelectSeq(csv, LAMBDA row : row.Institution # <<>> /\ row.CIK # "")
            selected ==
                IF institution_filter.top # 0
                THEN [i \in 1..Min(institution_filter.top, Len(valid)) |-> valid[i]]
                ELSE IF institution_filter.range # <<>>
                     THEN [i \in 1..(Min(institution_filter.range[2], Len(valid))
                                        - institution_filter.range[1] + 1) |->
                               valid[i + institution_filter.range[1] - 1]]
                     ELSE valid
        IN  /\ target_firms_file.exists
            /\ target_firms_file.firms =
                   [i \in DOMAIN selected |->
                       [cik |-> selected[i].CIK, name |-> selected[i].Institution]]
            /\ cik_metadata_file.exists
            /\ DOMAIN cik_metadata_file.cik_details = {selected[i].CIK : i \in DOMAIN selected}
            /\ \A c \in DOMAIN cik_metadata_file.cik_details :
                   \E i \in DOMAIN selected :
                       /\ selected[i].CIK = c
                       /\ cik_metadata_file.cik_details[c]
                              = [name |-> selected[i].Institution, type |-> selected[i].Type]

\* An earlier run listed and downloaded the second institution; the roster was
\* edited and no longer has a row with its CIK and a name; after the next run
\* both files hold the first institution only.
C17_Witness ==
    /\ d_pc = "done"
    /\ "c2" \in download_progress_file
    /\ "c2" \notin Range(cik_list)
    /\ clean_institutions_csv = <<Row(StateStreet, "", "Bank"), RowOf("c1"),
                                  Row(<<>>, "c2", "Hedge Fund")>>
    /\ institution_filter = NoInstitutionFilter
    /\ target_firms_file.firms = <<[cik |-> "c1", name |-> Vanguard]>>
    /\ DOMAIN cik_metadata_file.cik_details = {"c1"}

\* ---- the pipeline: roster, downloader, then analyzer ----
\* Without(seq, i): the sequence without its i-th element.
Without(seq, i) == [j \in 1..(Len(seq) - 1) |-> IF j < i THEN seq[j] ELSE seq[j + 1]]

\* The operator removes the row of one institution from
\* config/clean_institutions.csv between two runs of the downloader.
RemoveInstitution ==
    /\ d_pc \in {"idle", "done"}
    /\ \E i \in DOMAIN clean_institutions_csv :
           clean_institutions_csv' = Without(clean_institutions_csv, i)
    /\ d_pc' = "idle"
    /\ UNCHANGED <<download_progress_file, d_force, cik_list, d_idx, downloaded_ciks,
                   successful_downloads, failed_downloads, skipped_downloads,
                   filing_metadata, d_start_progress, d_fetched, d_quarters, d_quarter,
                   d_before, fsVars, mapperVars,
                   analyzerVars, restVars>>

\* The stages are run one after the other: institutions are removed from the
\* roster and the downloader run any number of times, and the analyzer is run
\* once the last run of the downloader has ended; no stage starts while another
\* is running.
PipelineNext ==
    \/ (a_pc = "idle" /\ RemoveInstitution)
    \/ (a_pc = "idle" /\ DownloaderStart)
    \/ (a_pc = "idle" /\ DownloaderStep)
    \/ (a_pc = "idle" /\ DownloaderFinish)
    \/ (a_pc = "idle" /\ DownloaderInterrupt)
    \/ (d_pc = "done" /\ AnalyzerMain)
    \/ (d_pc = "done" /\ AnalyzerProcessAllFilings)
    \/ (d_pc = "done" /\ AnalyzerCalculateMetrics)
    \/ (d_pc = "done" /\ AnalyzerGenerateOutputs)
    \/ (d_pc = "done" /\ AnalyzerMainTarget)

\* Before the first run: both institutions in the roster, nothing downloaded.
InitPipeline == InitTargets /\ clean_institutions_csv = <<RowOf("c1"), RowOf("c2")>>

\* The CIKs of the rows of the roster.
RosterCiks == {clean_institutions_csv[i].CIK : i \in DOMAIN clean_institutions_csv}

C18_RemovedInstitutionInvisible ==
    a_pc = "metrics" =>
        \A cik \in CIKs \ RosterCiks :
            \A i \in DOMAIN current_holdings :
                CompanyName(cik) \notin DOMAIN current_holdings[i].positions

(***************************************************************************)
(* Shares-outstanding extractor (pipeline/03_get_sec_shares_outstanding.py) *)
(***************************************************************************)
\* One fact of a units.shares list: its end date and its value.
Fact(end, val) == [end |-> end, val |-> val]

\* The facts of the list that extract_shares_from_json looks at: those ending
\* on or after 2025-01-01 or, when there is none, on or after 2024-07-01.
RecentFacts(shares_list) ==
    LET from2025 == SelectSeq(shares_list, LAMBDA f : ~DateLess(f.end, Date(2025, 1, 1)))
    IN  IF from2025 # <<>> THEN from2025
        ELSE SelectSeq(shares_list, LAMBDA f : ~DateLess(f.end, Date(2024, 7, 1)))

\* sort(key=end, reverse=True)[0]: the first fact with the latest end date.
MostRecent(recent) ==
    recent[CHOOSE i \in DOMAIN recent :
               /\ \A j \in DOMAIN recent : ~DateLess(recent[i].end, recent[j].end)
               /\ \A j \in 1..(i - 1) : recent[j].end # recent[i].end]

NoShares == [found |-> FALSE]

\* extract_shares_from_json: CommonStockSharesOutstanding first; when it gives no
\* value, or the value 0, WeightedAverageNumberOfSharesOutstandingBasic; None
\* when neither gives a value other than 0.
ExtractSharesFromJson(data) ==
    LET common   == RecentFacts(data.common)
        weighted == RecentFacts(data.weighted)
        first    == IF common # <<>> THEN MostRecent(common) ELSE Fact(NoDate, 0)
        chosen   == IF first.val = 0 /\ weighted # <<>> THEN MostRecent(weighted) ELSE first
    IN  IF chosen.val # 0
        THEN [found |-> TRUE, shares_outstanding |-> chosen.val, shares_date |-> chosen.end]
        ELSE NoShares

\* A member of the archive: whether its name is CIK<digits>.json, the CIK of the
\* name without its leading zeros, and the facts of its JSON.
Member(named, cik, data) == [named |-> named, cik |-> cik, data |-> data]

\* needed_ciks is None: the default of the parameter, not passed by any caller.
AllCiks == [none |-> TRUE, ciks |-> {}]

\* The filter extract_selective_companyfacts gets from run_optimized_extraction.
Needed(ciks) == [none |-> FALSE, ciks |-> ciks]

\* extract_selective_companyfacts: the loop over zf.namelist(). A member is read
\* when `needed_ciks is None or cik in needed_ciks`; the loop stops early when a
\* non-empty needed_ciks has been found whole.
RECURSIVE ExtractSelectiveCompanyfacts(_, _, _)
ExtractSelectiveCompanyfacts(members, needed, results) ==
    IF members = <<>> THEN results
    ELSE LET m    == Head(members)
             read == m.named /\ (needed.none \/ m.cik \in needed.ciks)
             info == ExtractSharesFromJson(m.data)
             next == IF read /\ info.found
                     THEN (m.cik :> [shares_outstanding |-> info.shares_outstanding,
                                     shares_date |-> info.shares_date]) @@ results
                     ELSE results
         IN  IF /\ read
                /\ needed.ciks # {}
                /\ Cardinality(DOMAIN next) = Cardinality(needed.ciks)
             THEN next
             ELSE ExtractSelectiveCompanyfacts(Tail(members), needed, next)

\* get_needed_ciks: the CIKs of ticker_to_cik_map.json and of the mappings of
\* cusip_to_shares_complete.json; an empty set when neither gives one.
GetNeededCiks(ticker_map, complete_mappings) ==
    {ticker_map[t] : t \in {u \in DOMAIN ticker_map : ticker_map[u] # ""}}
        \cup {complete_mappings[c].cik : c \in DOMAIN complete_mappings}

\* run_optimized_extraction up to its prompt: the archive is there, the needed
\* CIKs are collected and, when there is none, the operator is asked whether to
\* continue with a full extraction.
ExtractorStart ==
    /\ x_pc = "idle"
    /\ needed_ciks' = GetNeededCiks(ticker_to_cik_file, cusip_to_shares)
    /\ \E response \in {"y", "n"} :
           x_pc' = IF needed_ciks' # {} \/ response = "y" THEN "extract" ELSE "cancelled"
    /\ UNCHANGED <<companyfacts_zip, shares_data, tickerVars, completeVars, targetVars,
                   dashboardVars, pathVars, configVars, mapperVars, fsVars, downloaderVars, analyzerVars>>

\* run_optimized_extraction after the prompt: extract_selective_companyfacts
\* with the collected set, and save_consolidated_data unless nothing was found.
ExtractorExtract ==
    /\ x_pc = "extract"
    /\ shares_data' = ExtractSelectiveCompanyfacts(companyfacts_zip, Needed(needed_ciks), <<>>)
    /\ x_pc' = IF DOMAIN shares_data' = {} THEN "failed" ELSE "done"
    /\ sec_shares_file' = IF DOMAIN shares_data' = {} THEN sec_shares_file ELSE shares_data'
    /\ UNCHANGED <<companyfacts_zip, needed_ciks, ticker_to_cik_file, today, c_pc,
                   cusip_to_shares, c_validation, cusip_to_shares_metadata, c_counters, tickerVars,
                   targetVars, dashboardVars, pathVars, configVars, mapperVars, fsVars,
                   downloaderVars, analyzerVars>>

XNext == ExtractorStart \/ ExtractorExtract

\* ---- the archive and the mapping files of the extractor ----
\* The facts of one company: none; a value of 2025; a value of late 2024 after
\* one of early 2024; a common-stock value too old and a weighted average of
\* late 2024; a common-stock value 0 and nothing else.
CompanyFacts ==
    {[common |-> <<>>, weighted |-> <<>>],
     [common |-> <<Fact(Date(2025, 3, 31), 5000000)>>, weighted |-> <<>>],
     [common |-> <<Fact(Date(2024, 3, 31), 300000), Fact(Date(2024, 9, 30), 400000)>>,
      weighted |-> <<>>],
     [common |-> <<Fact(Date(2024, 3, 31), 300000)>>,
      weighted |-> <<Fact(Date(2024, 9, 30), 200000)>>],
     [common |-> <<Fact(Date(2025, 3, 31), 0)>>, weighted |-> <<>>]}

\* companyfacts.zip: a member for the CIK k1, a member that is no CIK file, a
\* member for the CIK k2.
Archives ==
    {<<Member(TRUE, "k1", d1), Member(FALSE, "", [common |-> <<>>, weighted |-> <<>>]),
       Member(TRUE, "k2", d2)>> : d1, d2 \in CompanyFacts}

\* ticker_to_cik_map.json: not there, there with no entry that has a CIK, with
\* one CIK, with the CIKs of the whole chain.
ExtractorTickerMaps ==
    {<<>>, [t \in {"E"} |-> ""], [t \in {"A"} |-> "k1"], CompleteTickerToCik}

InitExtractor ==
    /\ MIdle
    /\ FsEmpty
    /\ DIdle
    /\ AIdle
    /\ TIdle
    /\ UIdle
    /\ PIdle
    /\ GIdle
    /\ ticker_to_cik_file \in ExtractorTickerMaps
    /\ sec_shares_file = <<>>
    /\ today = Date(2025, 7, 1)
    /\ c_pc = "idle"
    /\ cusip_to_shares = <<>>
    /\ c_validation = <<>>
    /\ cusip_to_shares_metadata = NoMetadata
    /\ c_counters = NoCounters
    /\ companyfacts_zip \in Archives
    /\ x_pc = "idle"
    /\ needed_ciks = {}
    /\ shares_data = <<>>
    /\ KIdle

\* C21: when neither mapping file gave a CIK and the operator confirmed, the run
\* has ended with a consolidated output that holds a record for every member
\* named CIK<digits>.json from which extract_shares_from_json gets a value.
C21_UnfilteredExtraction ==
    (x_pc \in {"failed", "done"} /\ needed_ciks = {}) =>
        \A i \in DOMAIN companyfacts_zip :
            (companyfacts_zip[i].named /\ ExtractSharesFromJson(companyfacts_zip[i].data).found)
                => companyfacts_zip[i].cik \in DOMAIN sec_shares_file

(***************************************************************************)
(* Ticker reference downloader (pipeline/01_download_sec_tickers.py)       *)
(***************************************************************************)
\* download.max_retries of the configuration, by default.
max_retries == 3

\* An entry of company_tickers.json: the ticker as SEC writes it, and cik_str as
\* a count of leading zeros and the digits after them.
Company(ticker, zeros, digits) == [ticker |-> ticker, cik_str |-> [zeros |-> zeros, digits |-> digits]]

\* str(cik_str).lstrip('0').
StripZeros(cik_str) == cik_str.digits

\* process_ticker_mappings: the entries with a ticker and a CIK, keyed by the
\* upper-case ticker; a later entry of the same ticker replaces an earlier one.
RECURSIVE ProcessTickerMappings(_, _)
ProcessTickerMappings(data, ticker_to_cik) ==
    IF data = <<>> THEN ticker_to_cik
    ELSE LET company == Head(data)
             ticker  == Upper(company.ticker)
             cik     == StripZeros(company.cik_str)
         IN  ProcessTickerMappings(
                 Tail(data),
                 IF ticker # "" /\ cik # "" THEN (ticker :> cik) @@ ticker_to_cik
                 ELSE ticker_to_cik)

\* What SEC can answer with: the registry of the day.
Registries ==
    {<<>>,
     <<Company("b", 3, "k2")>>,
     <<Company("A", 0, "k1"), Company("b", 3, "k2"), Company("", 1, "k3")>>,
     <<Company("A", 0, "k1"), Company("D", 2, ""), Company("A", 0, "k3")>>}

\* The outcomes of one requests.get with raise_for_status and response.json().
DownloadOutcomes == {"ok", "timeout", "request error", "error"}

\* main and the start of run: with --force company_tickers.json is deleted;
\* download_company_tickers returns at once when the file is there.
TickerMain ==
    /\ t_pc \in {"idle", "failed", "unprocessed", "done"}
    /\ \E force \in BOOLEAN :
           /\ t_force' = force
           /\ company_tickers_file' = IF force THEN NoFile ELSE company_tickers_file
    /\ t_start_files' = [company_tickers |-> company_tickers_file,
                         ticker_to_cik |-> ticker_to_cik_file]
    /\ attempt' = 0
    /\ t_pc' = IF company_tickers_file'.exists THEN "process" ELSE "download"
    /\ UNCHANGED <<extractorVars, completeVars, targetVars, dashboardVars, pathVars,
                   configVars, mapperVars, fsVars, downloaderVars, analyzerVars>>

\* One turn of the retry loop of download_company_tickers: the answer is saved
\* and the function returns True, or the attempt is logged; after max_retries
\* failed attempts the function returns False and run reports the failure.
TickerAttempt ==
    /\ t_pc = "download"
    /\ attempt < max_retries
    /\ \E outcome \in DownloadOutcomes, data \in Registries :
           /\ company_tickers_file' =
                  IF outcome = "ok" THEN [exists |-> TRUE, data |-> data]
                  ELSE company_tickers_file
           /\ attempt' = IF outcome = "ok" THEN attempt ELSE attempt + 1
           /\ t_pc' = IF outcome = "ok" THEN "process"
                      ELSE IF attempt + 1 = max_retries THEN "failed" ELSE "download"
    /\ UNCHANGED <<t_force, t_start_files, extractorVars, completeVars, targetVars,
                   dashboardVars, pathVars, configVars, mapperVars, fsVars, downloaderVars,
                   analyzerVars>>

\* run, second step: process_ticker_mappings writes ticker_to_cik_map.json, also
\* when the mapping is empty; run then reports that processing failed.
TickerProcess ==
    /\ t_pc = "process"
    /\ ticker_to_cik_file' = ProcessTickerMappings(company_tickers_file.data, <<>>)
    /\ t_pc' = IF DOMAIN ticker_to_cik_file' = {} THEN "unprocessed" ELSE "done"
    /\ UNCHANGED <<company_tickers_file, t_force, attempt, t_start_files, extractorVars,
                   sec_shares_file, today, c_pc, cusip_to_shares, c_validation,
                   cusip_to_shares_metadata, c_counters, targetVars, dashboardVars, pathVars, configVars,
                   mapperVars, fsVars, downloaderVars, analyzerVars>>

KNext == TickerMain \/ TickerAttempt \/ TickerProcess

\* Before the first run: nothing downloaded.
InitTicker ==
    /\ MIdle
    /\ FsEmpty
    /\ DIdle
    /\ AIdle
    /\ CIdle
    /\ TIdle
    /\ UIdle
    /\ PIdle
    /\ GIdle
    /\ XIdle
    /\ KIdle

\* C23: when every attempt of the download has failed, the stage has reported
\* failure and company_tickers.json and ticker_to_cik_map.json are as they were
\* when the stage was started, with or without --force.
C23_FailedDownloadKeepsFiles ==
    t_pc = "failed" =>
        /\ company_tickers_file = t_start_files.company_tickers
        /\ ticker_to_cik_file = t_start_files.ticker_to_cik

(***************************************************************************)
(* The complete-chain mapper on the ticker map the ticker stage writes     *)
(***************************************************************************)
\* ticker_to_cik_map.json is what process_ticker_mappings wrote from one of the
\* registries; the other inputs are those of the complete-chain mapper.
InitChain ==
    /\ cusip_ticker_map_file \in CompleteCusipMaps
    /\ MNotRunning
    /\ FsEmpty
    /\ DIdle
    /\ AIdle
    /\ ticker_to_cik_file \in {ProcessTickerMappings(data, <<>>) : data \in Registries}
    /\ sec_shares_file \in CompleteSecShares
    /\ today \in Nows
    /\ c_pc = "idle"
    /\ cusip_to_shares = <<>>
    /\ c_validation = <<>>
    /\ cusip_to_shares_metadata = NoMetadata
    /\ c_counters = NoCounters
    /\ TIdle
    /\ UIdle
    /\ PIdle
    /\ GIdle
    /\ SIdle

\* The CUSIPs of cusip_ticker_map.json that have a ticker.
WithTicker == {c \in DOMAIN cusip_ticker_map_file : cusip_ticker_map_file[c] # ""}

\* The ticker of the CUSIP has an entry in ticker_to_cik_map.json.
TickerHit(c) == Upper(cusip_ticker_map_file[c]) \in DOMAIN ticker_to_cik_file

\* The CIK of the CUSIP's ticker has shares data.
SharesHit(c) == ticker_to_cik_file[Upper(cusip_ticker_map_file[c])] \in DOMAIN sec_shares_file

\* The validity gate accepts the shares data of the CUSIP's chain.
GateAccepts(c) ==
    IsValidSharesData(
        sec_shares_file[ticker_to_cik_file[Upper(cusip_ticker_map_file[c])]].shares_outstanding,
        sec_shares_file[ticker_to_cik_file[Upper(cusip_ticker_map_file[c])]].shares_date,
        today).valid

\* C24: after build_complete_mapping the CUSIPs with a ticker are partitioned
\* into four outcomes: in the output (both lookups hit and the gate accepts),
\* counted as missing ticker->CIK (first lookup misses), counted as missing
\* CIK->shares (second lookup misses), counted as invalid (the gate refuses);
\* each counter is the size of its part, the four add up to the number of
\* CUSIPs with a ticker, and the output holds no other CUSIP.
C24_FourOutcomes ==
    c_pc \in {"built", "saved"} =>
        LET written == {c \in WithTicker : TickerHit(c) /\ SharesHit(c) /\ GateAccepts(c)}
            no_cik  == {c \in WithTicker : ~TickerHit(c)}
            no_data == {c \in WithTicker : TickerHit(c) /\ ~SharesHit(c)}
            invalid == {c \in WithTicker : TickerHit(c) /\ SharesHit(c) /\ ~GateAccepts(c)}
        IN  /\ DOMAIN cusip_to_shares = written
            /\ c_counters.successful_mappings = Cardinality(written)
            /\ c_counters.missing_ticker_to_cik = Cardinality(no_cik)
            /\ c_counters.missing_cik_to_shares = Cardinality(no_data)
            /\ c_counters.invalid_shares_data = Cardinality(invalid)
            /\ c_counters.successful_mappings + c_counters.missing_ticker_to_cik
                   + c_counters.missing_cik_to_shares + c_counters.invalid_shares_data
                   = Cardinality(WithTicker)

\* Five CUSIPs with a ticker: two are written and the gate refuses the three
\* others, whose ticker leads to stale or implausible shares data.
C24_Witness ==
    /\ c_pc = "built"
    /\ Cardinality(WithTicker) = 5
    /\ c_counters.successful_mappings = 2
    /\ c_counters.invalid_shares_data = 3
    /\ Cardinality(DOMAIN cusip_to_shares) = 2

(***************************************************************************)
(* Aggregation of the filings' lines                                       *)
(***************************************************************************)
\* Main filings of Q1 2025: c1 reports CUSIP 1 on two lines with CUSIP 2 between
\* them, c2 reports CUSIP 1 on two lines; a line with 0 shares is dropped by the
\* parser.
AggregateFilings ==
    {[cik \in CIKs |->
        IF cik = "c1"
        THEN <<Filing(FALSE, [year |-> 2025, month |-> 3],
                      <<Line(1, a, 1), Line(2, b, 2), Line(1, c, 3)>>), NoFiling>>
        ELSE <<Filing(FALSE, [year |-> 2025, month |-> 3], <<Line(1, d, 4), Line(1, e, 5)>>),
               NoFiling>>] :
        a \in {0, 10, 20}, b \in {0, 5}, c \in {0, 10, 20}, d \in {0, 7}, e \in {0, 7}}

InitAggregate ==
    /\ MIdle
    /\ RestIdle
    /\ DIdle
    /\ filing_metadata_file = <<>>
    /\ filings \in AggregateFilings
    /\ cusip_to_shares_file = DiffSharesFile
    /\ analysis_progress_file = ""
    /\ enriched_cache_file = NoCache
    /\ NoOutputs
    /\ ANotRunning

\* C26: after process_all_filings, the shares of every aggregated CUSIP are the
\* sum of the shares of its positions, its value is the sum of their values,
\* and its holders list names exactly the institutions of its positions, each
\* once, also when an institution reported the CUSIP on several lines.
C26_TotalsAreSumsOfPositions ==
    a_pc = "metrics" =>
        \A i \in DOMAIN current_holdings :
            LET h == current_holdings[i]
            IN  /\ h.shares = SumOver([n \in DOMAIN h.positions |-> h.positions[n].shares],
                                      DOMAIN h.positions)
                /\ h.value = SumOver([n \in DOMAIN h.positions |-> h.positions[n].value],
                                     DOMAIN h.positions)
                /\ SeqToSet(h.holders) = DOMAIN h.positions
                /\ \A j, k \in DOMAIN h.holders : h.holders[j] = h.holders[k] => j = k

\* Both institutions reported CUSIP 1 on two lines: 10 + 20 shares and 7 + 7
\* shares, 44 shares in all.
C26_Witness ==
    /\ a_pc = "metrics"
    /\ \E i \in DOMAIN current_holdings :
           /\ current_holdings[i].cusip = 1
           /\ current_holdings[i].shares = 44
           /\ current_holdings[i].value = 13000
           /\ DOMAIN current_holdings[i].positions = {CompanyName("c1"), CompanyName("c2")}
           /\ current_holdings[i].positions[CompanyName("c1")].shares = 30
           /\ current_holdings[i].positions[CompanyName("c2")].value = 9000

(***************************************************************************)
(* The quarterly change records as a whole                                 *)
(***************************************************************************)
\* C27: in every change record computed against the previous quarter's file,
\* itself written by the analyzer, shares_change is the sum of shares_change
\* over the record's institution_changes, and net_institutional_change is
\* num_holders minus prev_num_holders.
C27_ChangesAddUp ==
    (a_pc = "output" /\ PrevDataFileExists(cwd, total_holdings_file, PrevQuarter(a_self))) =>
        \A i \in DOMAIN quarterly_adds_pct :
            LET r  == quarterly_adds_pct[i]
                ic == r.institution_changes
            IN  /\ r.shares_change = SumOver([n \in DOMAIN ic |-> ic[n].shares_change], DOMAIN ic)
                /\ r.net_institutional_change = r.num_holders - r.prev_num_holders

\* CUSIP 1 was held by c1 (10 shares) and c2 (20 shares) and is now held by c1
\* alone (20 shares): 10 shares fewer in all, c1 up by 10, c2 dropped with -20,
\* one holder fewer.
C27_Witness ==
    /\ a_pc = "output"
    /\ PrevDataFileExists(cwd, total_holdings_file, PrevQuarter(a_self))
    /\ \E i \in DOMAIN quarterly_adds_pct :
           /\ quarterly_adds_pct[i].cusip = 1
           /\ quarterly_adds_pct[i].shares_change = 0 - 10
           /\ DOMAIN quarterly_adds_pct[i].institution_changes
                  = {CompanyName("c1"), CompanyName("c2")}
           /\ quarterly_adds_pct[i].institution_changes[CompanyName("c1")].shares_change = 10
           /\ quarterly_adds_pct[i].institution_changes[CompanyName("c2")].shares_change = 0 - 20
           /\ quarterly_adds_pct[i].net_institutional_change = 0 - 1
           /\ quarterly_adds_pct[i].num_holders = 1
           /\ quarterly_adds_pct[i].prev_num_holders = 2

\* C28: the quarterly change file an analysis writes has exactly one record per
\* security of that quarter's accepted holdings list; a security of the previous
\* quarter's file that is not in the accepted list has no record, and no record
\* reports the holders it lost.
C28_OneRecordPerCurrentSecurity ==
    (a_pc \in {"next", "done"} /\ quarterly_adds_file[a_self].exists) =>
        LET out      == quarterly_adds_file[a_self].securities
            accepted == {total_holdings_pct[i].cusip : i \in DOMAIN total_holdings_pct}
            prior    == IF PrevDataFileExists(cwd, total_holdings_file, PrevQuarter(a_self))
                        THEN SeqToSet(total_holdings_file[PrevQuarter(a_self)].securities)
                        ELSE {}
        IN  /\ Len(out) = Len(total_holdings_pct)
            /\ \A i, j \in DOMAIN out : out[i].cusip = out[j].cusip => i = j
            /\ {out[i].cusip : i \in DOMAIN out} = accepted
            /\ \A p \in prior :
                   p.cusip \notin accepted =>
                       \A i \in DOMAIN out :
                           /\ out[i].cusip # p.cusip
                           /\ "dropped_holders" \in DOMAIN out[i] =>
                                  out[i].dropped_holders \subseteq PriorHolders(out[i].cusip)

\* The previous quarter's file has CUSIP 2, held by c1; no institution holds it
\* in the target quarter, whose change file has a record for CUSIP 1 only, with
\* no dropped holder.
C28_Witness ==
    /\ a_pc = "done"
    /\ PrevDataFileExists(cwd, total_holdings_file, PrevQuarter(a_self))
    /\ \E i \in DOMAIN total_holdings_file[PrevQuarter(a_self)].securities :
           /\ total_holdings_file[PrevQuarter(a_self)].securities[i].cusip = 2
           /\ total_holdings_file[PrevQuarter(a_self)].securities[i].holders = <<CompanyName("c1")>>
    /\ quarterly_adds_file[a_self].exists
    /\ Len(quarterly_adds_file[a_self].securities) = 1
    /\ quarterly_adds_file[a_self].securities[1].cusip = 1
    /\ quarterly_adds_file[a_self].securities[1].dropped_holders = {}

(***************************************************************************)
(* Runs of the downloader for different quarters                           *)
(***************************************************************************)
\* Both institutions are on the roster, nothing has been downloaded, and the
\* operator runs the downloader for Q4 2024 and for Q1 2025, in any order and
\* any number of times.
InitRuns ==
    /\ MIdle
    /\ FsEmpty
    /\ AIdle
    /\ RestIdle
    /\ clean_institutions_csv = <<RowOf("c1"), RowOf("c2")>>
    /\ download_progress_file = {}
    /\ d_pc = "idle"
    /\ d_force = FALSE
    /\ cik_list = <<>>
    /\ d_idx = 1
    /\ downloaded_ciks = {}
    /\ successful_downloads = <<>>
    /\ failed_downloads = <<>>
    /\ skipped_downloads = <<>>
    /\ filing_metadata = <<>>
    /\ d_start_progress = {}
    /\ d_fetched = {}
    /\ d_quarters = {QY(4, 2024), QY(1, 2025)}
    /\ d_quarter = NoQuarter
    /\ d_before = NoneRecorded

\* C29: a CIK that an earlier run, for whatever quarter, recorded as successful
\* and that is in the progress file when a run without --force starts is not
\* fetched in that run, whatever the quarter of that run, and once the loop has
\* handled it, it is in the skipped list.
C29_RecordedCikSkippedInAnyQuarter ==
    (d_pc \in {"loop", "done"} /\ ~d_force) =>
        \A cik \in CIKs :
            (d_before[cik] # NoQuarter /\ cik \in d_start_progress) =>
                /\ cik \notin d_fetched
                /\ cik \in Handled => cik \in Range(skipped_downloads)

\* A run without --force for Q1 2025 has ended, having skipped, without a fetch,
\* a CIK that a run for Q4 2024 recorded.
C29_Witness ==
    /\ d_pc = "done"
    /\ ~d_force
    /\ d_quarter = QY(1, 2025)
    /\ \E cik \in CIKs :
           /\ d_before[cik] = QY(4, 2024)
           /\ cik \in Range(skipped_downloads)
           /\ cik \notin d_fetched

(***************************************************************************)
(* An accepted cache and the filings on disk                               *)
(***************************************************************************)
\* The filings on disk when the analyzer runs: those the cache was written
\* from, or changed since (other shares, another CUSIP, a filing of c2 added,
\* the filing of c1 removed). An earlier run may have written the output of
\* Q4 2024, a quarter without filings.
StaleFilings ==
    {[cik \in CIKs |->
        IF cik = "c1" THEN <<f1, NoFiling>> ELSE <<f2, NoFiling>>] :
        f1 \in {Filing(FALSE, [year |-> 2025, month |-> 3], <<Line(1, 7, 7)>>),
                Filing(FALSE, [year |-> 2025, month |-> 3], <<Line(1, 10, 1), Line(2, 10, 1)>>),
                NoFiling},
        f2 \in {NoFiling,
                Filing(FALSE, [year |-> 2025, month |-> 3], <<Line(1, 5, 1)>>)}}

InitStale ==
    /\ MIdle
    /\ RestIdle
    /\ DIdle
    /\ filing_metadata_file = <<>>
    /\ filings \in StaleFilings
    /\ cusip_to_shares_file \in {[mtime |-> t, mappings |-> [c \in {1} |-> 1000]] : t \in {1, 2}}
    /\ analysis_progress_file \in {"", "enrichment_complete"}
    /\ enriched_cache_file \in
           {[exists |-> TRUE, qy |-> qy, cache_version |-> "2.0",
             cusip_to_shares_timestamp |-> 1, holdings |-> CachedHoldings(1, 1)] :
                qy \in {QY(1, 2025), QY(4, 2024)}}
    /\ \E written \in BOOLEAN :
           LET outputs == [qy \in OutputQuarters |->
                              IF written /\ qy = QY(4, 2024) THEN GenerateJsonOutput(<<>>)
                              ELSE NoOutput]
           IN  /\ total_holdings_file = outputs
               /\ quarterly_adds_file = outputs
    /\ ANotRunning

InitMapper == MInit /\ FsEmpty /\ DIdle /\ AIdle /\ RestIdle
SpecMapper == InitMapper /\ [][MNext]_vars

InitDownloader == DInit /\ MIdle /\ AIdle /\ RestIdle
SpecDownloader == InitDownloader /\ [][DNext]_vars

SpecSelect == InitSelect /\ [][ANext]_vars

SpecDiff == InitDiff /\ [][ANext]_vars

SpecMetrics == InitMetrics /\ [][ANext]_vars

SpecCache == InitCache /\ [][ANext]_vars

SpecComplete == InitComplete /\ [][CNext]_vars

SpecLoad == InitLoad /\ [][UNext]_vars

SpecFilter == InitFilter /\ [][UNext]_vars

SpecCalendar == InitCalendar /\ [][PNext]_vars

SpecConfig == InitConfig /\ [][GNext]_vars

SpecTargets == InitTargets /\ [][TNext]_vars

SpecPipeline == InitPipeline /\ [][PipelineNext]_vars

SpecExtractor == InitExtractor /\ [][XNext]_vars

SpecTicker == InitTicker /\ [][KNext]_vars

SpecChain == InitChain /\ [][CNext]_vars

SpecAggregate == InitAggregate /\ [][ANext]_vars

SpecRuns == InitRuns /\ [][DNext]_vars

SpecStale == InitStale /\ [][ANext]_vars

====
